---- MODULE Spec2Model ----
(***************************************************************************)
(* A model of CircuitSeeker's alignment drivers (CircuitSeeker/align.py):  *)
(*   distributed_twist_align              nested outer/inner schedule      *)
(*   affine_align                         single-pair alignment + gates    *)
(*   random_affine_search                 candidate scoring loop           *)
(*   distributed_piecewise_affine_align   per-block alignment              *)
(*     (its block geometry also alone, over a wider range of arguments)    *)
(*   bspline_deformable_align             single-pair B-spline alignment   *)
(*   distributed_piecewise_exhaustive_translation   sample points, blocks  *)
(* Images, masks and displacement fields that the drivers only pass on are *)
(* symbolic terms (tagged tuples); numbers the drivers compute with are    *)
(* integers or reduced fractions.                                          *)
(***************************************************************************)
EXTENDS Integers, Sequences, FiniteSets, TLC

VARIABLES
    \* ---- distributed_twist_align: arguments
    block_schedule, parameter_schedule, initial_transform_list,
    mov_mask, intermediates_path, field_seed,
    \* ---- distributed_twist_align: locals
    current_moving, current_moving_mask, counter, deform, ddd,
    outer_level, inner_level, tw_pc, tw_result,
    \* ---- distributed_twist_align: what it wrote and what it called
    saved, calls, levels,
    \* what the driver and the cluster did, in the order done (trace), and the
    \* block tasks handed to the workers and not yet completed (outstanding)
    trace, outstanding,
    \* ---- affine_align: arguments, the answers of SimpleITK, position, outcome
    aa_args, aa_itk, aa_pc, aa_out,
    \* ---- random_affine_search: arguments, the metric evaluator, locals
    rs_args, rs_evaluator, iii, scores, fail_count, rs_pc, rs_out,
    \* the rows of params in the order of line 399, and what affine_align
    \* returned for each row refined so far
    rs_order, rs_refined,
    \* ---- distributed_piecewise_affine_align: arguments, locals, the answers
    \* SimpleITK gave in each block, position, outcome
    pw_args, blocksize, overlaps, pads, affines, block_log, pw_pc, pw_out,
    \* ---- bspline_deformable_align: arguments, the answers of SimpleITK,
    \* the transform the optimizer changes in place, locals, position, outcome
    bs_args, bs_itk, bs_transform, bs_default,
    bs_initial_metric_value, bs_final_metric_value, bs_pc, bs_out,
    \* ---- distributed_piecewise_exhaustive_translation: arguments, locals,
    \* the slices taken for each sample (blocks) and the windows added to the
    \* field (windows), the loop index, position
    et_args, search_radius, limit, samples, blocks, windows, et_i, et_pc,
    \* the translations the blocks gave and the field they are added to
    translations, dvf

twArgs  == <<block_schedule, parameter_schedule, initial_transform_list,
             mov_mask, intermediates_path, field_seed>>
twLocal == <<current_moving, current_moving_mask, counter, deform, ddd,
             outer_level, inner_level, tw_pc, tw_result>>
twLog   == <<saved, calls, levels, trace, outstanding>>
twVars  == <<twArgs, twLocal, twLog>>

aaVars  == <<aa_args, aa_itk, aa_pc, aa_out>>

rsVars  == <<rs_args, rs_evaluator, iii, scores, fail_count, rs_pc, rs_out,
             rs_order, rs_refined>>

pwVars  == <<pw_args, blocksize, overlaps, pads, affines, block_log, pw_pc, pw_out>>

bsVars  == <<bs_args, bs_itk, bs_transform, bs_default,
             bs_initial_metric_value, bs_final_metric_value, bs_pc, bs_out>>

etVars  == <<et_args, search_radius, limit, samples, blocks, windows, et_i, et_pc,
             translations, dvf>>

\* What each function leaves alone: the state of the others.
notTwist     == <<aaVars, rsVars, pwVars, bsVars, etVars>>
notAffine    == <<twVars, rsVars, pwVars, bsVars, etVars>>
notRandom    == <<twVars, aaVars, pwVars, bsVars, etVars>>
notPiecewise == <<twVars, aaVars, rsVars, bsVars, etVars>>
notBspline   == <<twVars, aaVars, rsVars, pwVars, etVars>>
notExhaustive == <<twVars, aaVars, rsVars, pwVars, bsVars>>

vars == <<twVars, aaVars, rsVars, pwVars, bsVars, etVars>>

(***************************************************************************)
(* Bounds of the model.                                                    *)
(***************************************************************************)
MaxOuter == 2       \* outer levels of a block schedule: 1..MaxOuter
MaxInner == 2       \* inner levels of one outer level:  1..MaxInner
MaxRandomIterations == 20   \* random_iterations: 0..MaxRandomIterations
MaxBlocksPerAxis == 2       \* nblocks[i]: 1..MaxBlocksPerAxis
MaxBlocks == 2              \* nblocks[0] * nblocks[1] * nblocks[2]: 1..MaxBlocks
MaxRefine == 2              \* affine_align_best: 0..MaxRefine
MaxRefinedIterations == 3   \* random_iterations when affine_align_best > 0
MaxExtent == 9              \* small axis extents of the block geometry: 1..MaxExtent
MaxGeometryBlocks == 4      \* nblocks[0] of the block geometry: 1..MaxGeometryBlocks
MaxSampledExtent == 12      \* first axis of the sampled volume: 1..MaxSampledExtent
MaxStride == 3              \* stride[0]: 1..MaxStride
MaxQueryRadius == 2         \* query_radius[0]: 0..MaxQueryRadius
MaxMetric == 2              \* metric values of bspline_deformable_align: 0..MaxMetric

(***************************************************************************)
(* Values.                                                                 *)
(***************************************************************************)
NoneV == <<"None">>

\* A Python list held in an optional argument.
List(seq) == <<"list", seq>>
Items(l) == l[2]

RECURSIVE Gcd(_, _)
Gcd(a, b) == IF b = 0 THEN a ELSE Gcd(b, a % b)

Abs(x) == IF x < 0 THEN -x ELSE x

\* A number held in a float array: the fraction n/d in lowest terms, d > 0.
Frac(n, d) ==
    LET g == Gcd(Abs(n), d)
    IN  <<"num", n \div g, d \div g>>

\* np.zeros(fix.shape + (3,)) and np.zeros_like(deform)
ZeroField == Frac(0, 1)

\* ddd += field
FieldAdd(a, b) == Frac(a[2] * b[3] + b[2] * a[3], a[3] * b[3])

\* ddd / len(inner_list)
FieldDiv(a, n) == Frac(a[2], a[3] * n)

fix         == <<"vol", "fix">>
mov         == <<"vol", "mov">>
fix_mask    == <<"vol", "fix_mask">>
fix_spacing == <<"spacing", "fix">>
mov_spacing == <<"spacing", "mov">>

\* CircuitSeeker.transform.apply_transform: the resampling oracle.
apply_transform(ref, img, ref_spacing, img_spacing, transform_list) ==
    <<"warp", ref, img, ref_spacing, img_spacing, transform_list>>

\* CircuitSeeker.transform.compose_displacement_vector_fields: the
\* field-composition oracle.
compose_displacement_vector_fields(first, second, spacing) ==
    <<"compose", first, second, spacing>>

\* (mask > 0).astype(np.uint8)
Binarize(v) == <<"gt0", v>>

\* {**a, **b}: the entries of b override those of a.
DictMerge(a, b) ==
    [k \in (DOMAIN a) \cup (DOMAIN b) |-> IF k \in DOMAIN b THEN b[k] ELSE a[k]]

\* The general **kwargs of distributed_twist_align.
kwargs == [iterations |-> 200, overlap |-> 50]

(***************************************************************************)
(* 4x4 homogeneous matrices with integer entries.                          *)
(***************************************************************************)
\* np.eye(4)
Eye4 == << <<1, 0, 0, 0>>, <<0, 1, 0, 0>>, <<0, 0, 1, 0>>, <<0, 0, 0, 1>> >>

\* np.matmul(a, b)
MatMul(a, b) ==
    LET l == a
        r == b
    IN  [i \in 1..4 |-> [j \in 1..4 |->
            l[i][1] * r[1][j] + l[i][2] * r[2][j] + l[i][3] * r[3][j] + l[i][4] * r[4][j]]]

\* tl = np.eye(4); tl[:3, -1] = t
Translation(t) ==
    << <<1, 0, 0, t[1]>>, <<0, 1, 0, t[2]>>, <<0, 0, 1, t[3]>>, <<0, 0, 0, 1>> >>

\* A shift, and a quarter turn about the first axis followed by a shift.
MatShift == Translation(<<1, 0, 2>>)
MatTurn  == << <<1, 0, 0, 0>>, <<0, 0, -1, 3>>, <<0, 1, 0, 1>>, <<0, 0, 0, 1>> >>

\* utility.invert_matrix_axes: rows and columns of the 3x3 part and the
\* translation are reversed (zyx <-> xyz).
invert_matrix_axes(matrix) ==
    [i \in 1..4 |-> [j \in 1..4 |->
        IF i = 4 THEN Eye4[i][j]
        ELSE IF j = 4 THEN matrix[4 - i][4]
        ELSE matrix[4 - i][4 - j]]]

\* utility.matrix_to_affine_transform / matrix_to_euler_transform: the
\* SimpleITK transform holding the matrix in SimpleITK's axis order.
matrix_to_affine_transform(matrix) == <<"sitk", invert_matrix_axes(matrix)>>

\* utility.affine_transform_to_matrix
affine_transform_to_matrix(transform) == invert_matrix_axes(transform[2])

(***************************************************************************)
(* affine_align                                                            *)
(*                                                                         *)
(* args: the call's arguments.  default_passed tells whether the caller    *)
(* wrote default=... in the call; when it did not, default holds the       *)
(* signature's np.eye(4).  Masks are sets of voxels, a threshold is a      *)
(* percentage.                                                             *)
(* itk: what SimpleITK answers during the call: which of the three calls   *)
(* inside the try block raises (if any), the two metric values and the     *)
(* transform irm.Execute leaves in place.                                  *)
(***************************************************************************)
Mask(voxels) == <<"mask", voxels>>
Pct(n) == <<"pct", n>>

\* CircuitSeeker.quality.jaccard_filter: TRUE when the Jaccard index of the
\* two masks, |A & B| / |A | B|, is not below the threshold.
jaccard_filter(fm, mm, threshold) ==
    100 * Cardinality(fm[2] \cap mm[2]) >= threshold[2] * Cardinality(fm[2] \cup mm[2])

\* UpdatedDefault without lines 528-530: the default stays what was passed.
UpdatedDefaultNever(initial_transform, default) == default

\* lines 528-530, with np.all(default == np.eye(4)) true of every 4x4 array
\* default that happens to equal the identity, passed or not
UpdatedDefault(initial_transform, default) ==
    IF initial_transform # NoneV /\ default = Eye4
    THEN initial_transform
    ELSE default

\* lines 532-537: TRUE when the pre-check rejects the pair.
JaccardRejects(args) ==
    /\ args.jaccard_filter_threshold # NoneV
    /\ args.fix_mask # NoneV
    /\ args.mov_mask # NoneV
    /\ ~jaccard_filter(args.fix_mask, args.mov_mask, args.jaccard_filter_threshold)

\* ImprovementGate accepting a final value equal to the initial one.
ImprovementGateWeak(initial_metric_value, final_metric_value) ==
    final_metric_value <= initial_metric_value

\* line 606
ImprovementGate(initial_metric_value, final_metric_value) ==
    final_metric_value < initial_metric_value

\* affine_align without the try/except of lines 590-598: an exception of
\* SimpleITK leaves the function.
affine_align_unguarded(args, itk) ==
    LET default == UpdatedDefault(args.initial_transform, args.default)
        transform == <<"sitk", itk.optimized>>
    IN  IF JaccardRejects(args)
        THEN [value |-> default, path |-> "jaccard",
              metric_evals |-> 0, executes |-> 0]
        ELSE IF itk.raise_at # "none"
        THEN [value |-> NoneV, path |-> "raised",
              metric_evals |-> 1, executes |-> 1]
        ELSE IF ImprovementGate(itk.initial_metric, itk.final_metric)
        THEN [value |-> affine_transform_to_matrix(transform), path |-> "optimized",
              metric_evals |-> 2, executes |-> 1]
        ELSE [value |-> default, path |-> "not_improved",
              metric_evals |-> 2, executes |-> 1]

\* lines 528-615.  value: the matrix returned; path: the return statement
\* taken ("raised": an exception left the function, which the code as
\* written never lets happen for an exception of SimpleITK); metric_evals, executes: the calls of irm.MetricEvaluate and
\* irm.Execute that were started.
affine_align(args, itk) ==
    LET default == UpdatedDefault(args.initial_transform, args.default)
        raised  == itk.raise_at # "none"
        evals   == CASE itk.raise_at = "initial_metric" -> 1
                     [] itk.raise_at = "execute"        -> 1
                     [] OTHER                           -> 2
        execs   == IF itk.raise_at = "initial_metric" THEN 0 ELSE 1
        transform == <<"sitk", itk.optimized>>
    IN  IF JaccardRejects(args)
        THEN [value |-> default, path |-> "jaccard",
              metric_evals |-> 0, executes |-> 0]
        ELSE IF raised
        THEN [value |-> default, path |-> "exception",
              metric_evals |-> evals, executes |-> execs]
        ELSE IF ImprovementGate(itk.initial_metric, itk.final_metric)
        THEN [value |-> affine_transform_to_matrix(transform), path |-> "optimized",
              metric_evals |-> 2, executes |-> 1]
        ELSE [value |-> default, path |-> "not_improved",
              metric_evals |-> 2, executes |-> 1]

Matrices == {Eye4, MatShift, MatTurn}
SitkAnswers ==
    [raise_at : {"none", "initial_metric", "execute", "final_metric"},
     initial_metric : {-1, 0, 1},
     final_metric : {-1, 0, 1},
     optimized : {invert_matrix_axes(MatTurn), invert_matrix_axes(MatShift)}]

AffineArgs ==
    { a \in [rigid : BOOLEAN,
             initial_transform : {NoneV, MatShift, MatTurn},
             default_passed : BOOLEAN,
             default : Matrices,
             fix_mask : {NoneV, Mask({1}), Mask({1, 2})},
             mov_mask : {NoneV, Mask({2}), Mask({1, 2})},
             jaccard_filter_threshold : {NoneV, Pct(10), Pct(60)}] :
        /\ ~a.default_passed => a.default = Eye4
        /\ a.default_passed => a.default \in {Eye4, MatShift} }

NoCall == [value |-> NoneV, path |-> "", metric_evals |-> 0, executes |-> 0]

AffineInit ==
    /\ aa_args \in AffineArgs
    /\ aa_itk \in SitkAnswers
    /\ aa_pc = "call"
    /\ aa_out = NoCall

AffineIdle ==
    /\ aa_args = NoneV
    /\ aa_itk = NoneV
    /\ aa_pc = "idle"
    /\ aa_out = NoCall

\* One call of affine_align, from its first line to its return.
AffineAlignCall ==
    /\ aa_pc = "call"
    /\ aa_out' = affine_align(aa_args, aa_itk)
    /\ aa_pc' = "returned"
    /\ UNCHANGED <<aa_args, aa_itk, notAffine>>

(***************************************************************************)
(* random_affine_search                                                    *)
(*                                                                         *)
(* evaluator: what irm.MetricEvaluate does for candidate i (row i of       *)
(* params, row 0 being the identity): it raises for the candidates         *)
(* first_raise..last_raise and returns a score for the others.             *)
(***************************************************************************)
\* np.finfo(scores.dtype).max: above every score an evaluation returns.
FloatMax == 2147483647

\* the failure budget of the scoring loop
FailureBudget == 10

Raises(evaluator, i) == evaluator.first_raise <= i /\ i <= evaluator.last_raise

MetricOf(evaluator, i) == IF i = evaluator.best THEN -2 ELSE (i % 3) - 1

\* params_to_affine_matrix(params[i]): row 0 holds the identity parameters,
\* the other rows are random draws.
CandidateMatrix(i) == IF i = 0 THEN Eye4 ELSE Translation(<<i, 0, -i>>)

\* BudgetExhausted comparing with > where the code compares with >=.
BudgetExhaustedLate(failures, random_iterations) ==
    failures > FailureBudget \/ failures > random_iterations + 1

\* line 393
BudgetExhausted(failures, random_iterations) ==
    failures >= FailureBudget \/ failures >= random_iterations + 1

\* The rows that np.argsort(scores) may put first: those of least score.
ArgMins(sc) == { i \in 1..Len(sc) : \A j \in 1..Len(sc) : sc[i] <= sc[j] }

\* The orders np.argsort(scores) may give: every permutation of the rows
\* that puts no higher score before a lower one.
SortedOrders(sc) ==
    { p \in [1..Len(sc) -> 1..Len(sc)] :
        /\ \A i, j \in 1..Len(sc) : i # j => p[i] # p[j]
        /\ \A i, j \in 1..Len(sc) : i < j => sc[p[i]] <= sc[p[j]] }

\* np.argmin(scores): the first index of the least score.
ArgMin(sc) ==
    CHOOSE i \in 1..Len(sc) :
        /\ \A j \in 1..Len(sc) : sc[i] <= sc[j]
        /\ \A j \in 1..(i - 1) : sc[j] > sc[i]

\* What one refinement can meet: the answers of SimpleITK inside
\* affine_align (an improvement, or none), then the outcome of the
\* irm.MetricEvaluate of line 424 (a score, or an exception).
RefineAnswers ==
    [itk : { [raise_at |-> "none", initial_metric |-> 1, final_metric |-> 0,
              optimized |-> invert_matrix_axes(MatTurn)],
             [raise_at |-> "none", initial_metric |-> 0, final_metric |-> 0,
              optimized |-> invert_matrix_axes(MatTurn)] },
     raises : BOOLEAN,
     score : {-3, 0}]

\* With affine_align_best > 0 the model keeps random_iterations small and
\* affine_align_best within the rows of params.
RandomArgs ==
    { a \in [random_iterations : 0..MaxRandomIterations,
             affine_align_best : 0..MaxRefine,
             masks : { [fix_mask |-> NoneV, mov_mask |-> NoneV,
                        jaccard_filter_threshold |-> NoneV],
                       [fix_mask |-> Mask({1}), mov_mask |-> Mask({2}),
                        jaccard_filter_threshold |-> Pct(10)],
                       [fix_mask |-> Mask({1, 2}), mov_mask |-> Mask({2}),
                        jaccard_filter_threshold |-> Pct(10)] }] :
        a.affine_align_best > 0 =>
            /\ a.random_iterations <= MaxRefinedIterations
            /\ a.affine_align_best <= a.random_iterations + 1
            /\ a.masks.jaccard_filter_threshold = NoneV }

Evaluators(n) ==
    { e \in [first_raise : 0..n + 1, last_raise : -1..n, best : {0, n}] :
        /\ e.first_raise <= e.last_raise + 1
        /\ (e.first_raise = e.last_raise + 1) => e.first_raise = 0 }

RandomInit ==
    /\ rs_args \in RandomArgs
    /\ rs_evaluator \in Evaluators(rs_args.random_iterations)
    /\ iii = 0
    /\ scores = <<>>
    /\ fail_count = 0
    /\ rs_pc = "start"
    /\ rs_out = [value |-> NoneV, path |-> ""]
    /\ rs_order = <<>>
    /\ rs_refined = <<>>

RandomIdle ==
    /\ rs_args = NoneV
    /\ rs_evaluator = NoneV
    /\ iii = 0
    /\ scores = <<>>
    /\ fail_count = 0
    /\ rs_pc = "idle"
    /\ rs_out = [value |-> NoneV, path |-> ""]
    /\ rs_order = <<>>
    /\ rs_refined = <<>>

\* lines 303-383: the pre-check, then the set-up of the scoring loop.
RandomStart ==
    /\ rs_pc = "start"
    /\ IF JaccardRejects(rs_args.masks)
       THEN /\ rs_out' = [value |-> Eye4, path |-> "jaccard"]
            /\ rs_pc' = "returned"
       ELSE /\ rs_pc' = "scoring"
            /\ UNCHANGED rs_out
    /\ UNCHANGED <<rs_args, rs_evaluator, iii, scores, fail_count, rs_order,
                   rs_refined, notRandom>>

\* lines 384-396: one iteration of the scoring loop.
ScoreCandidate ==
    /\ rs_pc = "scoring"
    /\ iii <= rs_args.random_iterations
    /\ IF Raises(rs_evaluator, iii)
       THEN /\ scores' = Append(scores, FloatMax)
            /\ fail_count' = fail_count + 1
            /\ IF BudgetExhausted(fail_count + 1, rs_args.random_iterations)
               THEN /\ rs_out' = [value |-> Eye4, path |-> "failed"]
                    /\ rs_pc' = "returned"
               ELSE UNCHANGED <<rs_out, rs_pc>>
       ELSE /\ scores' = Append(scores, MetricOf(rs_evaluator, iii))
            /\ UNCHANGED <<fail_count, rs_out, rs_pc>>
    /\ iii' = iii + 1
    /\ UNCHANGED <<rs_args, rs_evaluator, rs_order, rs_refined, notRandom>>

\* lines 398-403: sort by score and return the best candidate.
RandomReturnBest ==
    /\ rs_pc = "scoring"
    /\ iii = rs_args.random_iterations + 1
    /\ rs_args.affine_align_best = 0
    /\ \E first \in ArgMins(scores) :
          rs_out' = [value |-> CandidateMatrix(first - 1), path |-> "best"]
    /\ rs_pc' = "returned"
    /\ UNCHANGED <<rs_args, rs_evaluator, iii, scores, fail_count, rs_order,
                   rs_refined, notRandom>>

\* lines 398-408, affine_align_best > 0: sort the rows by score, then a new
\* scores array and a new failure count for the refinements.
RandomSort ==
    /\ rs_pc = "scoring"
    /\ iii = rs_args.random_iterations + 1
    /\ rs_args.affine_align_best > 0
    /\ rs_order' \in SortedOrders(scores)
    /\ scores' = <<>>
    /\ fail_count' = 0
    /\ iii' = 0
    /\ rs_pc' = "refining"
    /\ UNCHANGED <<rs_args, rs_evaluator, rs_out, rs_refined, notRandom>>

\* lines 409-431: one refinement.  aff, the matrix affine_align returns, is
\* used for the score of line 424 and then dropped.
RefineCandidate ==
    /\ rs_pc = "refining"
    /\ iii < rs_args.affine_align_best
    /\ \E answer \in RefineAnswers :
          LET aff == affine_align(
                        [rigid |-> FALSE,
                         initial_transform |-> CandidateMatrix(rs_order[iii + 1] - 1),
                         default_passed |-> FALSE, default |-> Eye4,
                         fix_mask |-> rs_args.masks.fix_mask,
                         mov_mask |-> rs_args.masks.mov_mask,
                         jaccard_filter_threshold |-> NoneV],
                        answer.itk).value
          IN  /\ rs_refined' = Append(rs_refined, aff)
              /\ IF answer.raises
                 THEN /\ scores' = Append(scores, FloatMax)
                      /\ fail_count' = fail_count + 1
                      /\ IF fail_count + 1 >= rs_args.affine_align_best
                         THEN /\ rs_out' = [value |-> Eye4, path |-> "refinement_failed"]
                              /\ rs_pc' = "returned"
                         ELSE UNCHANGED <<rs_out, rs_pc>>
                 ELSE /\ scores' = Append(scores, answer.score)
                      /\ UNCHANGED <<fail_count, rs_out, rs_pc>>
    /\ iii' = iii + 1
    /\ UNCHANGED <<rs_args, rs_evaluator, rs_order, notRandom>>

\* line 434: the row of the sorted params at the index of the least
\* refined score, turned into a matrix.
RandomReturnRefined ==
    /\ rs_pc = "refining"
    /\ iii = rs_args.affine_align_best
    /\ rs_out' = [value |-> CandidateMatrix(rs_order[ArgMin(scores)] - 1),
                  path |-> "refined"]
    /\ rs_pc' = "returned"
    /\ UNCHANGED <<rs_args, rs_evaluator, iii, scores, fail_count, rs_order,
                   rs_refined, notRandom>>

(***************************************************************************)
(* distributed_piecewise_affine_align                                      *)
(*                                                                         *)
(* pw_args: shape (fix.shape), nblocks, overlap (a percentage),            *)
(* fix_spacing, fix_mask / mov_mask (given or None) and kwargs (the        *)
(* keyword arguments handed on to affine_align).                           *)
(***************************************************************************)
Axes == 1..3

\* .astype(np.int16)
ToInt16(x) == ((x + 32768) % 65536) - 32768

\* The largest np.int16.
Int16Max == 32767

\* np.ceil(a / b) for positive integers.  The quotient of the source is a
\* float; it is exact enough for the ceiling to be the true one for every
\* extent below 2^24, the range of the model.
CeilDiv(a, b) == (a + b - 1) \div b

\* x % y of NumPy integers: the result has the sign of the divisor, and a
\* zero divisor gives 0 (with a warning).
NpMod(x, y) ==
    IF y = 0 THEN 0
    ELSE IF y > 0 THEN x % y
    ELSE -((-x) % (-y))

\* NumPy broadcasting of nblocks against the three-axis shape in line 738:
\* equal lengths pair up, a length of one is repeated, any other length
\* raises ValueError.
Broadcastable(shape, nblocks) == Len(nblocks) \in {1, Len(shape)}

Broadcast(shape, nblocks) ==
    IF Len(nblocks) = 1 THEN [i \in 1..Len(shape) |-> nblocks[1]] ELSE nblocks

\* np.round(n * pct / 100): to the nearest integer, a half to the even one
RoundHalfEven(n, pct) ==
    LET q == (n * pct) \div 100
        r == (n * pct) % 100
    IN  IF r < 50 THEN q
        ELSE IF r > 50 THEN q + 1
        ELSE IF q % 2 = 0 THEN q ELSE q + 1

\* lines 738-739
BlockSize(shape, nblocks) ==
    LET nb == Broadcast(shape, nblocks)
    IN  [i \in Axes |-> ToInt16(CeilDiv(shape[i], nb[i]))]

\* line 740
Overlaps(bs, overlap) == [i \in Axes |-> ToInt16(RoundHalfEven(bs[i], overlap))]

\* lines 744-745: the trailing pad of each axis
Pads(shape, bs) ==
    [i \in Axes |-> IF NpMod(shape[i], bs[i]) > 0
                    THEN bs[i] - NpMod(shape[i], bs[i])
                    ELSE 0]

\* lines 757-760 and 812-822: the chunk locations of the padded, rechunked
\* arrays, one call of single_affine_align each
GridShape(shape, bs, pd) == [i \in Axes |-> (shape[i] + pd[i]) \div bs[i]]

Grid(shape, bs, pd) ==
    LET n == GridShape(shape, bs, pd)
    IN  { <<a, b, c>> : a \in 0..(n[1] - 1), b \in 0..(n[2] - 1), c \in 0..(n[3] - 1) }

\* lines 757-772: dask's rechunk(tuple(blocksize)) raises for a chunk size
\* that is zero or negative.
RechunkRaises(bs) == \E i \in Axes : bs[i] <= 0

\* lines 812-822: what the call of da.map_overlap can do with the halo
\* depth before any block runs.  A depth above the padded extent raises; a
\* depth above the chunk size raises in the releases of dask that do not
\* rechunk for it and is accepted in those that do; any other depth is
\* accepted.
map_overlap_outcomes(shape, bs, ov, pd) ==
    IF \E i \in Axes : ov[i] > shape[i] + pd[i] THEN {"value_error"}
    ELSE IF \E i \in Axes : ov[i] > bs[i] THEN {"value_error", "running"}
    ELSE {"running"}

\* lines 806-809 and the signature of line 780: the arrays are bound to
\* fix, mov, fm, mm by position
BoundMasks(fm_da, mm_da) ==
    LET arrays == (IF fm_da # NoneV THEN <<fm_da>> ELSE <<>>)
                     \o (IF mm_da # NoneV THEN <<mm_da>> ELSE <<>>)
    IN  [fm |-> IF Len(arrays) >= 1 THEN arrays[1] ELSE NoneV,
         mm |-> IF Len(arrays) >= 2 THEN arrays[2] ELSE NoneV]

\* The part of a mask array that falls into block idx.
MaskBlock(array, idx) ==
    IF array = NoneV THEN NoneV
    ELSE IF array = <<"array", "fix_mask">> THEN Mask({1})
    ELSE IF (idx[1] + idx[2] + idx[3]) % 2 = 0 THEN Mask({1}) ELSE Mask({2})

\* OriginCorrected without the clamp of line 797: the origin of a block at
\* the low end of an axis is negative.
OriginCorrectedUnclamped(affine, idx, bs, ov, spacing) ==
    LET origin == [i \in Axes |-> (bs[i] * idx[i] - ov[i]) * spacing[i]]
        tl == Translation(origin)
        tr == Translation([i \in Axes |-> -origin[i]])
        inner == MatMul(affine, tr)
    IN  MatMul(tl, inner)

\* lines 796-802
OriginCorrected(affine, idx, bs, ov, spacing) ==
    LET origin == [i \in Axes |->
                     (IF bs[i] * idx[i] - ov[i] > 0 THEN bs[i] * idx[i] - ov[i] ELSE 0)
                        * spacing[i]]
        tl == Translation(origin)
        tr == Translation([i \in Axes |-> -origin[i]])
        inner == MatMul(affine, tr)
    IN  MatMul(tl, inner)

\* lines 780-804: the closure called for block idx.  raised: an exception
\* left one of the two calls of affine_align, and so the closure.  The
\* closure reads kwargs, fix_spacing and mov_spacing of the enclosing call
\* and nothing else of its arguments: steps, random_kwargs, rigid_kwargs and
\* affine_kwargs are not referenced.  Beside the outcome, the record tells
\* what the closure did on the way: the arrays whose blocks it passed as
\* fix_mask and as mov_mask (fm, mm), what the rigid step returned
\* (rigid_result), what the affine step was given as initial_transform
\* (affine_initial) and what it returned (local).
single_affine_align(args, bs, ov, idx, itk_rigid, itk_affine) ==
    LET bound == BoundMasks(IF args.fix_mask THEN <<"array", "fix_mask">> ELSE NoneV,
                            IF args.mov_mask THEN <<"array", "mov_mask">> ELSE NoneV)
        fm == MaskBlock(bound.fm, idx)
        mm == MaskBlock(bound.mm, idx)
        rigid == affine_align(
            [rigid |-> TRUE, initial_transform |-> NoneV,
             default_passed |-> args.kwargs.default_passed,
             default |-> args.kwargs.default,
             fix_mask |-> fm, mov_mask |-> mm,
             jaccard_filter_threshold |-> args.kwargs.jaccard_filter_threshold],
            itk_rigid)
        affine == affine_align(
            [rigid |-> FALSE, initial_transform |-> rigid.value,
             default_passed |-> args.kwargs.default_passed,
             default |-> args.kwargs.default,
             fix_mask |-> fm, mov_mask |-> mm,
             jaccard_filter_threshold |-> args.kwargs.jaccard_filter_threshold],
            itk_affine)
    IN  IF rigid.path = "raised" \/ affine.path = "raised"
        THEN [raised |-> TRUE, value |-> NoneV,
              fm |-> bound.fm, mm |-> bound.mm,
              rigid_result |-> rigid.value, affine_initial |-> rigid.value,
              local |-> affine.value]
        ELSE [raised |-> FALSE,
              value |-> OriginCorrected(affine.value, idx, bs, ov, args.fix_spacing),
              fm |-> bound.fm, mm |-> bound.mm,
              rigid_result |-> rigid.value, affine_initial |-> rigid.value,
              local |-> affine.value]

\* dask_stitch.local_affine.local_affines_to_field: the stitching oracle.
local_affines_to_field(shape, spacing, aff, bs, ov) ==
    <<"stitched", shape, spacing, aff, bs, ov>>

\* What SimpleITK may answer in one step of one block: an improvement, an
\* exception, no improvement.
BlockAnswers ==
    { [raise_at |-> "none", initial_metric |-> 1, final_metric |-> 0,
       optimized |-> invert_matrix_axes(MatTurn)],
      [raise_at |-> "execute", initial_metric |-> 0, final_metric |-> 0,
       optimized |-> invert_matrix_axes(MatTurn)],
      [raise_at |-> "none", initial_metric |-> 0, final_metric |-> 0,
       optimized |-> invert_matrix_axes(MatTurn)] }

\* steps is varied for the calls without masks and with the common kwargs
\* of the first kind only.
PiecewiseArgs ==
  { a \in
    [shape : { <<4, 3, 2>>, <<5, 2, 3>> },
     nblocks : { n \in [Axes -> 1..MaxBlocksPerAxis] : n[1] * n[2] * n[3] <= MaxBlocks },
     overlap : {50},
     fix_spacing : { <<1, 2, 3>> },
     fix_mask : BOOLEAN,
     mov_mask : BOOLEAN,
     steps : { <<"rigid", "affine">>, <<>> },
     kwargs : { [default_passed |-> FALSE, default |-> Eye4,
                 jaccard_filter_threshold |-> NoneV],
                [default_passed |-> FALSE, default |-> Eye4,
                 jaccard_filter_threshold |-> Pct(10)],
                [default_passed |-> TRUE, default |-> MatShift,
                 jaccard_filter_threshold |-> NoneV] }] :
    a.steps # <<"rigid", "affine">> =>
        /\ ~a.fix_mask
        /\ ~a.mov_mask
        /\ a.kwargs.jaccard_filter_threshold = NoneV
        /\ ~a.kwargs.default_passed }

\* The arguments of the block geometry alone: small extents, extents around
\* the range of np.int16, block counts of every length from one to four,
\* overlaps up to one and a half block.
GeometryExtents ==
    (1..MaxExtent) \cup {Int16Max, Int16Max + 1, Int16Max + 1 + MaxExtent,
                         2 * Int16Max + 2, 2 * Int16Max + 2 + MaxExtent}

GeometryBlocks ==
    { <<a, b, c>> : a \in 1..MaxGeometryBlocks, b \in 1..2, c \in 1..2 }
        \cup { <<1>>, <<2>>, <<2, 2>>, <<2, 2, 2, 2>> }

GeometryArgs ==
    [shape : { <<x, 3, 2>> : x \in GeometryExtents },
     nblocks : GeometryBlocks,
     overlap : {0, 50, 100, 150},
     fix_spacing : { <<1, 2, 3>> },
     fix_mask : {FALSE},
     mov_mask : {FALSE},
     steps : { <<"rigid", "affine">> },
     kwargs : { [default_passed |-> FALSE, default |-> Eye4,
                 jaccard_filter_threshold |-> NoneV] }]

NoBlocks == [idx \in {} |-> NoneV]
NoReturn == [affines |-> NoBlocks, field |-> NoneV]

PiecewiseInit ==
    /\ pw_args \in PiecewiseArgs
    /\ blocksize = NoneV
    /\ overlaps = NoneV
    /\ pads = NoneV
    /\ affines = NoBlocks
    /\ block_log = NoBlocks
    /\ pw_pc = "start"
    /\ pw_out = NoReturn

\* The entry of the function for the arguments of the block geometry.
GeometryInit ==
    /\ pw_args \in GeometryArgs
    /\ blocksize = NoneV
    /\ overlaps = NoneV
    /\ pads = NoneV
    /\ affines = NoBlocks
    /\ block_log = NoBlocks
    /\ pw_pc = "start"
    /\ pw_out = NoReturn

PiecewiseIdle ==
    /\ pw_args = NoneV
    /\ blocksize = NoneV
    /\ overlaps = NoneV
    /\ pads = NoneV
    /\ affines = NoBlocks
    /\ block_log = NoBlocks
    /\ pw_pc = "idle"
    /\ pw_out = NoReturn

\* lines 737-772: block geometry, padding, scatter.  No argument is
\* validated; the ValueError of line 738 or of rechunk leaves the function.
PiecewiseStart ==
    /\ pw_pc = "start"
    /\ IF ~Broadcastable(pw_args.shape, pw_args.nblocks)
       THEN /\ pw_pc' = "value_error"
            /\ UNCHANGED <<blocksize, overlaps, pads>>
       ELSE LET bs == BlockSize(pw_args.shape, pw_args.nblocks)
            IN  /\ blocksize' = bs
                /\ overlaps' = Overlaps(bs, pw_args.overlap)
                /\ pads' = Pads(pw_args.shape, bs)
                /\ pw_pc' = IF RechunkRaises(bs) THEN "value_error" ELSE "scattered"
    /\ UNCHANGED <<pw_args, affines, block_log, pw_out, notPiecewise>>

\* lines 812-822: da.map_overlap builds the block tasks.
MapOverlap ==
    /\ pw_pc = "scattered"
    /\ pw_pc' \in map_overlap_outcomes(pw_args.shape, blocksize, overlaps, pads)
    /\ UNCHANGED <<pw_args, blocksize, overlaps, pads, affines, block_log,
                   pw_out, notPiecewise>>

\* ResultPosition by the order of completion: a result goes to a grid
\* position no result has been written to yet.
ResultPositionFirstFree(idx, free) == CHOOSE position \in free : TRUE

\* lines 812-822 (chunks=[1,1,1,4,4]): the 4x4 result of the task of block
\* idx is the chunk at idx of the array of affines.
ResultPosition(idx, free) == idx

\* lines 811-822: the task of one block, run by some worker; the blocks
\* finish in any order.
BlockTask ==
    /\ pw_pc = "running"
    /\ \E idx \in Grid(pw_args.shape, blocksize, pads) \ DOMAIN block_log :
       \E itk_rigid \in BlockAnswers, itk_affine \in BlockAnswers :
       \E result \in { single_affine_align(pw_args, blocksize, overlaps, idx,
                                            itk_rigid, itk_affine) } :
              /\ block_log' = block_log @@
                    (idx :> [rigid |-> itk_rigid, affine |-> itk_affine,
                             fm |-> result.fm, mm |-> result.mm,
                             rigid_result |-> result.rigid_result,
                             affine_initial |-> result.affine_initial,
                             local |-> result.local])
              /\ IF result.raised
                 THEN /\ pw_pc' = "raised"
                      /\ UNCHANGED affines
                 ELSE /\ affines' = affines @@
                            (ResultPosition(idx, Grid(pw_args.shape, blocksize, pads)
                                                    \ DOMAIN affines)
                               :> result.value)
                      /\ UNCHANGED pw_pc
    /\ UNCHANGED <<pw_args, blocksize, overlaps, pads, pw_out, notPiecewise>>

\* lines 822-832: every block is done; stitch and return both formats.
StitchAndReturn ==
    /\ pw_pc = "running"
    /\ DOMAIN affines = Grid(pw_args.shape, blocksize, pads)
    /\ pw_out' = [affines |-> affines,
                  field |-> local_affines_to_field(pw_args.shape, pw_args.fix_spacing,
                                                   affines, blocksize, overlaps)]
    /\ pw_pc' = "done"
    /\ UNCHANGED <<pw_args, blocksize, overlaps, pads, affines, block_log,
                   notPiecewise>>

(***************************************************************************)
(* distributed_twist_align                                                 *)
(***************************************************************************)
\* The tuples an inner list is made of.
BlockTuples == << <<2, 1, 1>>, <<1, 2, 1>>, <<1, 1, 2>>, <<2, 2, 1>> >>

InnerList(n) == [i \in 1..n |-> BlockTuples[((i - 1) % Len(BlockTuples)) + 1]]

\* Block schedules: 1..MaxOuter outer levels of 1..MaxInner inner levels.
Schedules ==
    UNION { { [k \in 1..n |-> InnerList(lens[k])] : lens \in [1..n -> 1..MaxInner] }
            : n \in 1..MaxOuter }

RECURSIVE TotalPasses(_)
TotalPasses(s) == IF s = <<>> THEN 0 ELSE Len(Head(s)) + TotalPasses(Tail(s))

\* The displacement field returned by call number k (0-based) of
\* distributed_piecewise_affine_align: an answer of the block aligner, which
\* the driver does not control.
PiecewiseField(seed, k) == Frac(((seed + 1) * (k + 1)) % 4, 1)

\* InstanceKwargs with the two dictionaries merged in the other order:
\* {**parameter_schedule[counter], **kwargs}.
InstanceKwargsGeneralWins(ps, k) ==
    IF ps # NoneV THEN DictMerge(Items(ps)[k + 1], kwargs) ELSE kwargs

\* lines 983-987
InstanceKwargs(ps, k) ==
    IF ps # NoneV THEN DictMerge(kwargs, Items(ps)[k + 1]) ELSE kwargs

\* lines 1018-1022
TransformList(itl, d) ==
    IF itl # NoneV THEN Items(itl) \o <<d>> ELSE <<d>>

\* ComposedDeform with the two fields handed to the oracle in the other order.
ComposedDeformSwapped(level, d, contribution) ==
    IF level > 0
    THEN compose_displacement_vector_fields(contribution, d, fix_spacing)
    ELSE d

\* lines 1012-1016
ComposedDeform(level, d, contribution) ==
    IF level > 0
    THEN compose_displacement_vector_fields(d, contribution, fix_spacing)
    ELSE d

\* lines 957-972: the working copies of the moving data.
InitialMoving(itl) ==
    IF itl # NoneV
    THEN apply_transform(fix, mov, fix_spacing, mov_spacing, Items(itl))
    ELSE mov

InitialMovingMask(itl, mask) ==
    IF mask = NoneV THEN NoneV
    ELSE IF itl # NoneV
    THEN Binarize(apply_transform(fix, mask, fix_spacing, mov_spacing, Items(itl)))
    ELSE mask

\* utility.py lines 161-167: scatter_dask_array sends the array to the workers
\* unless it is a dask array already.
IsDaskArray(array) == array[1] = "dask"

scatter_dask_array(array) ==
    [scattered |-> ~IsDaskArray(array),
     da |-> IF IsDaskArray(array) THEN array ELSE <<"dask", array>>]

\* One entry of trace: what was done, in which call of
\* distributed_piecewise_affine_align (pass, counted from 0) of which outer
\* level, to which array, how many settling delays had elapsed by then and
\* which block tasks were outstanding then.
SleepsDone == Cardinality({ i \in 1..Len(trace) : trace[i].kind = "sleep" })

Event(kind, array, at) ==
    [kind |-> kind, pass |-> counter, outer |-> outer_level, array |-> array,
     at |-> at, pending |-> outstanding]

\* piecewise lines 746-772: the arrays of one call that are sent to the
\* workers, in the order of the calls of scatter_dask_array (np.pad of a
\* numpy array is a new numpy array; the entry names the array padded).
Scatters(arrays, at) ==
    LET sent == SelectSeq(arrays, LAMBDA a : scatter_dask_array(a).scattered)
    IN  [i \in 1..Len(sent) |-> Event("scatter", sent[i], at)]

\* DispatchEvents with time.sleep moved behind the call.
DispatchEventsSleepLast(arrays) ==
    Scatters(arrays, SleepsDone)
        \o << Event("map_overlap", NoneV, SleepsDone) >>
        \o << Event("sleep", NoneV, SleepsDone + 1) >>

\* lines 989-1004 and piecewise lines 746-822: the settling delay, then the
\* call, which scatters fix, mov and the masks given and builds the block
\* tasks.
DispatchEvents(arrays) ==
    << Event("sleep", NoneV, SleepsDone + 1) >>
        \o Scatters(arrays, SleepsDone + 1)
        \o << Event("map_overlap", NoneV, SleepsDone + 1) >>

\* The block tasks of one call: one per position of the block grid (of a
\* volume that has at least nblocks voxels along each axis).
TwistGrid(nblocks) ==
    { <<a, b, c>> : a \in 0..(nblocks[1] - 1), b \in 0..(nblocks[2] - 1),
                    c \in 0..(nblocks[3] - 1) }

\* ComputeReturns without the wait for the block tasks.
ComputeReturnsEarly == TRUE

\* piecewise line 822: .compute() returns when every block task is done.
ComputeReturns == outstanding = {}

\* lines 957-976: the state when the outer loop is entered.
TwistInit ==
    /\ block_schedule \in Schedules
    /\ parameter_schedule \in
          { NoneV,
            List([k \in 1..TotalPasses(block_schedule) |-> [iterations |-> k]]) }
    /\ initial_transform_list \in { NoneV, List(<< <<"matrix", "initial">> >>) }
    /\ mov_mask \in { NoneV, <<"vol", "mov_mask">> }
    /\ intermediates_path \in { NoneV, <<"path", "out">> }
    /\ field_seed \in 0..2
    /\ current_moving = InitialMoving(initial_transform_list)
    /\ current_moving_mask = InitialMovingMask(initial_transform_list, mov_mask)
    /\ counter = 0
    /\ deform = ZeroField
    /\ ddd = ZeroField
    /\ outer_level = 0
    /\ inner_level = 0
    /\ tw_pc = "outer"
    /\ tw_result = NoneV
    /\ saved = {}
    /\ calls = <<>>
    /\ levels = <<>>
    /\ trace = <<>>
    /\ outstanding = {}

\* OuterBegin without line 980: the inner sum is carried into the next level.
OuterBeginKeepSum ==
    /\ tw_pc = "outer"
    /\ outer_level < Len(block_schedule)
    /\ inner_level' = 0
    /\ tw_pc' = "inner"
    /\ UNCHANGED <<notTwist, twArgs, current_moving, current_moving_mask, counter, deform,
                   ddd, outer_level, tw_result, twLog>>

\* line 977 and line 980: enter the next outer level.
OuterBegin ==
    /\ tw_pc = "outer"
    /\ outer_level < Len(block_schedule)
    /\ ddd' = ZeroField
    /\ inner_level' = 0
    /\ tw_pc' = "inner"
    /\ UNCHANGED <<notTwist, twArgs, current_moving, current_moving_mask, counter, deform,
                   outer_level, tw_result, twLog>>

\* InnerPass that also re-warps the working copies with the running sum.
InnerPassRewarping ==
    /\ tw_pc = "blocks"
    /\ ComputeReturns
    /\ trace' = Append(trace, Event("stitch", NoneV, SleepsDone))
    /\ tw_pc' = "inner"
    /\ LET nblocks == block_schedule[outer_level + 1][inner_level + 1]
           field   == PiecewiseField(field_seed, counter)
           tl      == TransformList(initial_transform_list, FieldAdd(ddd, field))
       IN  /\ calls' = Append(calls,
                 [outer |-> outer_level, inner |-> inner_level,
                  number |-> counter, nblocks |-> nblocks,
                  fix |-> fix, mov |-> current_moving,
                  fix_spacing |-> fix_spacing, mov_spacing |-> fix_spacing,
                  fix_mask |-> fix_mask, mov_mask |-> current_moving_mask,
                  kwargs |-> InstanceKwargs(parameter_schedule, counter),
                  field |-> field])
           /\ ddd' = FieldAdd(ddd, field)
           /\ current_moving' =
                 apply_transform(fix, mov, fix_spacing, mov_spacing, tl)
           /\ current_moving_mask' =
                 IF mov_mask # NoneV
                 THEN Binarize(apply_transform(fix, mov_mask, fix_spacing,
                                               mov_spacing, tl))
                 ELSE current_moving_mask
    /\ counter' = counter + 1
    /\ inner_level' = inner_level + 1
    /\ UNCHANGED <<notTwist, twArgs, deform, outer_level, tw_result, saved, levels,
                   outstanding>>

\* lines 981-1004 and piecewise lines 737-822: the next inner level begins;
\* the driver sleeps, calls distributed_piecewise_affine_align, and the call
\* scatters its arrays and hands the block tasks to the workers.
InnerDispatch ==
    /\ tw_pc = "inner"
    /\ inner_level < Len(block_schedule[outer_level + 1])
    /\ LET nblocks == block_schedule[outer_level + 1][inner_level + 1]
           arrays  == <<fix, current_moving>>
                         \o (IF fix_mask # NoneV THEN <<fix_mask>> ELSE <<>>)
                         \o (IF current_moving_mask # NoneV
                             THEN <<current_moving_mask>> ELSE <<>>)
       IN  /\ trace' = trace \o DispatchEvents(arrays)
           /\ outstanding' =
                 outstanding \cup { <<counter, idx>> : idx \in TwistGrid(nblocks) }
    /\ tw_pc' = "blocks"
    /\ UNCHANGED <<notTwist, twArgs, current_moving, current_moving_mask, counter,
                   deform, ddd, outer_level, inner_level, tw_result, saved, calls,
                   levels>>

\* piecewise lines 780-804, run by a worker: one block task completes; the
\* tasks complete in any order.
TwistBlockTask ==
    /\ \E task \in outstanding : outstanding' = outstanding \ {task}
    /\ UNCHANGED <<notTwist, twArgs, twLocal, saved, calls, levels, trace>>

\* piecewise lines 822-832 and lines 995-1007: the block tasks are done, the
\* call stitches and returns, the field is added and the counter incremented.
InnerPass ==
    /\ tw_pc = "blocks"
    /\ ComputeReturns
    /\ trace' = Append(trace, Event("stitch", NoneV, SleepsDone))
    /\ tw_pc' = "inner"
    /\ LET nblocks == block_schedule[outer_level + 1][inner_level + 1]
           field   == PiecewiseField(field_seed, counter)
       IN  /\ calls' = Append(calls,
                 [outer |-> outer_level, inner |-> inner_level,
                  number |-> counter, nblocks |-> nblocks,
                  fix |-> fix, mov |-> current_moving,
                  fix_spacing |-> fix_spacing, mov_spacing |-> fix_spacing,
                  fix_mask |-> fix_mask, mov_mask |-> current_moving_mask,
                  kwargs |-> InstanceKwargs(parameter_schedule, counter),
                  field |-> field])
           /\ ddd' = FieldAdd(ddd, field)
    /\ counter' = counter + 1
    /\ inner_level' = inner_level + 1
    /\ UNCHANGED <<notTwist, twArgs, current_moving, current_moving_mask, deform,
                   outer_level, tw_result, saved, levels, outstanding>>

\* lines 1009-1010
TakeMean ==
    /\ tw_pc = "inner"
    /\ inner_level = Len(block_schedule[outer_level + 1])
    /\ ddd' = FieldDiv(ddd, Len(block_schedule[outer_level + 1]))
    /\ tw_pc' = "compose"
    /\ trace' = Append(trace, Event("mean", NoneV, SleepsDone))
    /\ UNCHANGED <<notTwist, twArgs, current_moving, current_moving_mask, counter, deform,
                   outer_level, inner_level, tw_result, saved, calls, levels,
                   outstanding>>

\* lines 1012-1016
ComposeStep ==
    /\ tw_pc = "compose"
    /\ deform' = ComposedDeform(outer_level, deform, ddd)
    /\ tw_pc' = "warp"
    /\ UNCHANGED <<notTwist, twArgs, current_moving, current_moving_mask, counter, ddd,
                   outer_level, inner_level, tw_result, twLog>>

\* Rewarp that resamples the working copies instead of the original data.
RewarpWorkingCopy ==
    /\ tw_pc = "warp"
    /\ LET transform_list == TransformList(initial_transform_list, deform)
       IN  /\ current_moving' =
                 apply_transform(fix, current_moving, fix_spacing, mov_spacing,
                                 transform_list)
           /\ current_moving_mask' =
                 IF mov_mask # NoneV
                 THEN Binarize(apply_transform(fix, current_moving_mask,
                                               fix_spacing, mov_spacing,
                                               transform_list))
                 ELSE current_moving_mask
    /\ tw_pc' = "save"
    /\ UNCHANGED <<notTwist, twArgs, counter, deform, ddd, outer_level, inner_level,
                   tw_result, twLog>>

\* lines 1018-1035
Rewarp ==
    /\ tw_pc = "warp"
    /\ LET transform_list == TransformList(initial_transform_list, deform)
       IN  /\ current_moving' =
                 apply_transform(fix, mov, fix_spacing, mov_spacing, transform_list)
           /\ current_moving_mask' =
                 IF mov_mask # NoneV
                 THEN Binarize(apply_transform(fix, mov_mask, fix_spacing,
                                               mov_spacing, transform_list))
                 ELSE current_moving_mask
    /\ tw_pc' = "save"
    /\ UNCHANGED <<notTwist, twArgs, counter, deform, ddd, outer_level, inner_level,
                   tw_result, twLog>>

\* Checkpoints that writes the mean of the level in the place of deform.
CheckpointsOfContribution(level) ==
    { <<"twist_deform", level, ddd>>,
      <<"twist_image", level, current_moving>> } \cup
    ( IF mov_mask # NoneV
      THEN { <<"twist_mask", level, current_moving_mask>> }
      ELSE {} )

\* lines 1039-1046: the files np.save writes for an outer level, each as
\* <<name, number in the name, content>>.
Checkpoints(level) ==
    { <<"twist_deform", level, deform>>,
      <<"twist_image", level, current_moving>> } \cup
    ( IF mov_mask # NoneV
      THEN { <<"twist_mask", level, current_moving_mask>> }
      ELSE {} )

\* lines 1037-1046, and the end of the outer loop's body.
WriteIntermediates ==
    /\ tw_pc = "save"
    /\ saved' =
          IF intermediates_path # NoneV
          THEN saved \cup Checkpoints(outer_level)
          ELSE saved
    /\ levels' = Append(levels,
          [contribution |-> ddd, deform |-> deform,
           moving |-> current_moving, mask |-> current_moving_mask])
    /\ outer_level' = outer_level + 1
    /\ tw_pc' = "outer"
    /\ UNCHANGED <<notTwist, twArgs, current_moving, current_moving_mask, counter, deform,
                   ddd, inner_level, tw_result, calls, trace, outstanding>>

\* lines 1048-1049
TwistReturn ==
    /\ tw_pc = "outer"
    /\ outer_level = Len(block_schedule)
    /\ tw_result' = deform
    /\ tw_pc' = "done"
    /\ UNCHANGED <<notTwist, twArgs, current_moving, current_moving_mask, counter, deform,
                   ddd, outer_level, inner_level, twLog>>

TwistNext ==
    \/ OuterBegin
    \/ InnerDispatch
    \/ TwistBlockTask
    \/ InnerPass
    \/ TakeMean
    \/ ComposeStep
    \/ Rewarp
    \/ WriteIntermediates
    \/ TwistReturn

TwistIdle ==
    /\ block_schedule = <<>>
    /\ parameter_schedule = NoneV
    /\ initial_transform_list = NoneV
    /\ mov_mask = NoneV
    /\ intermediates_path = NoneV
    /\ field_seed = 0
    /\ current_moving = NoneV
    /\ current_moving_mask = NoneV
    /\ counter = 0
    /\ deform = ZeroField
    /\ ddd = ZeroField
    /\ outer_level = 0
    /\ inner_level = 0
    /\ tw_pc = "idle"
    /\ tw_result = NoneV
    /\ saved = {}
    /\ calls = <<>>
    /\ levels = <<>>
    /\ trace = <<>>
    /\ outstanding = {}

(***************************************************************************)
(* bspline_deformable_align                                                *)
(***************************************************************************)
\* The parameters of sitk.BSplineTransformInitializer's transform, and the
\* parameters irm.Execute leaves in it (SetInitialTransformAsBSpline is
\* called with inPlace=True).
InitialParameters   == <<"bspline", "initial">>
OptimizedParameters == <<"bspline", "optimized">>

\* ut.bspline_to_displacement_field(fix, transform)
bspline_to_displacement_field(parameters) == <<"field_of", parameters>>

\* lines 1715-1719: (np.array(fp + pp), field) of a transform
ParamsAndField(parameters) ==
    [params |-> parameters, field |-> bspline_to_displacement_field(parameters)]

\* irm.MetricEvaluate(fix, mov): the metric of the transform as it is when
\* the call is made.
MetricEvaluate(itk, parameters) ==
    IF parameters = InitialParameters
    THEN itk.metric_of_initial
    ELSE itk.metric_of_optimized

\* The answers of SimpleITK in one call: the metric of the two transforms,
\* the value the optimizer reports for its last iteration
\* (irm.GetMetricValue), and whether irm.Execute raises.
BsplineAnswers ==
    [metric_of_initial   : 0..MaxMetric,
     metric_of_optimized : 0..MaxMetric,
     last_iteration      : 0..MaxMetric,
     execute_raises      : BOOLEAN]

\* The arguments the model varies.
BsplineArgs == [default : {NoneV, <<"params_and_field", "caller">>}]

NoOutcome == <<"no return">>

BsplineInit ==
    /\ bs_args \in BsplineArgs
    /\ bs_itk \in BsplineAnswers
    /\ bs_transform = NoneV
    /\ bs_default = NoneV
    /\ bs_initial_metric_value = NoneV
    /\ bs_final_metric_value = NoneV
    /\ bs_pc = "start"
    /\ bs_out = NoOutcome

BsplineIdle ==
    /\ bs_args = NoneV
    /\ bs_itk = NoneV
    /\ bs_transform = NoneV
    /\ bs_default = NoneV
    /\ bs_initial_metric_value = NoneV
    /\ bs_final_metric_value = NoneV
    /\ bs_pc = "idle"
    /\ bs_out = NoOutcome

\* lines 1651-1696: the B-spline transform is created and handed to the
\* registration method in place; the default is taken from it when the
\* caller gave none.
BsplineSetUp ==
    /\ bs_pc = "start"
    /\ bs_transform' = InitialParameters
    /\ bs_default' = IF bs_args.default = NoneV
                     THEN <<"params_and_field", ParamsAndField(InitialParameters)>>
                     ELSE bs_args.default
    /\ bs_pc' = "set_up"
    /\ UNCHANGED <<bs_args, bs_itk, bs_initial_metric_value,
                   bs_final_metric_value, bs_out>>
    /\ UNCHANGED notBspline

\* lines 1698-1702: irm.Execute, outside any try block; it changes the
\* transform in place.
BsplineExecute ==
    /\ bs_pc = "set_up"
    /\ IF bs_itk.execute_raises
       THEN /\ bs_pc' = "raised"
            /\ UNCHANGED bs_transform
       ELSE /\ bs_pc' = "executed"
            /\ bs_transform' = OptimizedParameters
    /\ UNCHANGED <<bs_args, bs_itk, bs_default, bs_initial_metric_value,
                   bs_final_metric_value, bs_out>>
    /\ UNCHANGED notBspline

\* lines 1704-1709: the two values the gate compares.
BsplineMeasure ==
    /\ bs_pc = "executed"
    /\ bs_initial_metric_value' = MetricEvaluate(bs_itk, bs_transform)
    /\ bs_final_metric_value' = bs_itk.last_iteration
    /\ bs_pc' = "measured"
    /\ UNCHANGED <<bs_args, bs_itk, bs_transform, bs_default, bs_out>>
    /\ UNCHANGED notBspline

\* lines 1711-1724
BsplineReturn ==
    /\ bs_pc = "measured"
    /\ bs_out' = IF bs_final_metric_value < bs_initial_metric_value
                 THEN <<"params_and_field", ParamsAndField(bs_transform)>>
                 ELSE bs_default
    /\ bs_pc' = "returned"
    /\ UNCHANGED <<bs_args, bs_itk, bs_transform, bs_default,
                   bs_initial_metric_value, bs_final_metric_value>>
    /\ UNCHANGED notBspline

(***************************************************************************)
(* distributed_piecewise_exhaustive_translation                            *)
(***************************************************************************)
\* a[start:stop] of Python on an axis of n elements, as the set of indices
\* it selects: a negative bound counts from the end, and the bounds are
\* clamped to the axis.
SliceBound(b, n) ==
    LET c == IF b < 0 THEN b + n ELSE b
    IN  IF c < 0 THEN 0 ELSE IF c > n THEN n ELSE c

PySlice(start, stop, n) == SliceBound(start, n)..(SliceBound(stop, n) - 1)

\* a[start:stop:step] for a positive step
PySliceStep(start, stop, step, n) ==
    { j \in PySlice(start, stop, n) : (j - SliceBound(start, n)) % step = 0 }

\* line 1252
SearchRadius(query_radius, num_steps, step_sizes) ==
    [i \in Axes |-> query_radius[i] + num_steps[i] * step_sizes[i]]

\* EdgeLimit that forgets the stride.
EdgeLimitSearchOnly(radius, stride) == radius

\* line 1255
EdgeLimit(radius, stride) ==
    [i \in Axes |-> IF radius[i] > stride[i] THEN radius[i] ELSE stride[i]]

\* The value of the mask at a voxel.
MaskAt(mask, voxel) ==
    IF mask = <<"mask", "even planes">> THEN voxel[1] % 2 = 0 ELSE TRUE

\* lines 1258-1263: the voxels set in samples
SamplePoints(shape, lim, stride, mask) ==
    { v \in PySliceStep(lim[1], -lim[1], stride[1], shape[1])
              \X PySliceStep(lim[2], -lim[2], stride[2], shape[2])
              \X PySliceStep(lim[3], -lim[3], stride[3], shape[3]) :
        mask # NoneV => MaskAt(mask, v) }

\* line 1264: np.nonzero lists the voxels in row-major order.
RowMajorLess(a, b) ==
    \/ a[1] < b[1]
    \/ a[1] = b[1] /\ a[2] < b[2]
    \/ a[1] = b[1] /\ a[2] = b[2] /\ a[3] < b[3]

RECURSIVE RowMajor(_)
RowMajor(voxels) ==
    IF voxels = {} THEN <<>>
    ELSE LET first == CHOOSE v \in voxels :
                         \A w \in voxels \ {v} : RowMajorLess(v, w)
         IN  <<first>> \o RowMajor(voxels \ {first})

\* lines 1275-1280 and 1319-1321: x-r : x+r+1 on every axis
Around(voxel, radius, shape) ==
    [i \in Axes |-> PySlice(voxel[i] - radius[i], voxel[i] + radius[i] + 1, shape[i])]

\* An assignment or += of NumPy between arrays of different shapes raises;
\* the arrays the slices are paired with have 2 * radius + 1 elements on
\* every axis.
ShapeMismatch(slices, radius) ==
    \E i \in Axes : Cardinality(slices[i]) # 2 * radius[i] + 1

\* line 1317: np.pad of one 1. by s on both sides of an axis, mode
\* linear_ramp with the end value 0: (s - |j - s|) / s at offset j of 0..2s.
\* LinearRampOpenEnded is the ramp that ends one step above zero.
LinearRampOpenEnded(s, j) == Frac(s + 1 - Abs(j - s), s + 1)

LinearRamp(s, j) == Frac(s - Abs(j - s), s)

FracMul(a, b) == Frac(a[2] * b[2], a[3] * b[3])

\* line 1317: np.pad ramps one axis after the other, each from the values
\* the axes before it left, so the weight of an offset is the product of the
\* ramps of its three components.
Weight(stride, offset) ==
    FracMul(LinearRamp(stride[1], offset[1]),
            FracMul(LinearRamp(stride[2], offset[2]),
                    LinearRamp(stride[3], offset[3])))

\* The voxels of a volume.
Voxels(shape) == (0..(shape[1] - 1)) \X (0..(shape[2] - 1)) \X (0..(shape[3] - 1))

\* line 1322: dvf[s] += t * weights for the window s around a sample; the
\* translation is followed in one component.
AddWindow(field, voxel, t, slices, stride) ==
    [v \in DOMAIN field |->
        IF \A i \in Axes : v[i] \in slices[i]
        THEN FieldAdd(field[v],
                      FracMul(Frac(t, 1),
                              Weight(stride, [i \in Axes |-> v[i] - voxel[i] + stride[i]])))
        ELSE field[v]]

\* lines 1307-1313: the translations exhaustive_translation may return for
\* the blocks, one per sample, in voxel units of the followed component.
TranslationsOf(n) == { [k \in 1..n |-> ((k + seed) % 3) - 1] : seed \in 0..2 }

NoField == [v \in {} |-> ZeroField]

ExhaustiveArgs ==
    [shape : { <<n, 5, 3>> : n \in 1..MaxSampledExtent },
     stride : { <<s, 2, 1>> : s \in 1..MaxStride },
     query_radius : { <<q, 1, 0>> : q \in 0..MaxQueryRadius },
     num_steps : { <<n, 1, 1>> : n \in 0..1 },
     step_sizes : { <<t, 1, 1>> : t \in 1..2 },
     mask : {NoneV, <<"mask", "even planes">>}]

ExhaustiveInit ==
    /\ et_args \in ExhaustiveArgs
    /\ search_radius = NoneV
    /\ limit = NoneV
    /\ samples = <<>>
    /\ blocks = <<>>
    /\ windows = <<>>
    /\ et_i = 0
    /\ et_pc = "start"
    /\ translations = <<>>
    /\ dvf = NoField

ExhaustiveIdle ==
    /\ et_args = NoneV
    /\ search_radius = NoneV
    /\ limit = NoneV
    /\ samples = <<>>
    /\ blocks = <<>>
    /\ windows = <<>>
    /\ et_i = 0
    /\ et_pc = "idle"
    /\ translations = <<>>
    /\ dvf = NoField

\* lines 1251-1264: search radius, edge limits, sample points.
SelectSamples ==
    /\ et_pc = "start"
    /\ LET radius == SearchRadius(et_args.query_radius, et_args.num_steps,
                                  et_args.step_sizes)
           lim == EdgeLimit(radius, et_args.stride)
       IN  /\ search_radius' = radius
           /\ limit' = lim
           /\ samples' = RowMajor(SamplePoints(et_args.shape, lim, et_args.stride,
                                               et_args.mask))
    /\ et_pc' = "extract"
    /\ UNCHANGED <<et_args, blocks, windows, et_i, translations, dvf, notExhaustive>>

\* lines 1274-1280: the fixed and the moving block of one sample.
ExtractBlock ==
    /\ et_pc = "extract"
    /\ et_i < Len(samples)
    /\ LET voxel == samples[et_i + 1]
           fix_slices == Around(voxel, search_radius, et_args.shape)
           mov_slices == Around(voxel, et_args.query_radius, et_args.shape)
       IN  /\ blocks' = Append(blocks, [fix |-> fix_slices, mov |-> mov_slices])
           /\ et_pc' = IF \/ ShapeMismatch(fix_slices, search_radius)
                          \/ ShapeMismatch(mov_slices, et_args.query_radius)
                       THEN "value_error"
                       ELSE "extract"
    /\ et_i' = et_i + 1
    /\ UNCHANGED <<et_args, search_radius, limit, samples, windows, translations,
                   dvf, notExhaustive>>

\* lines 1282-1317: the blocks are aligned on the cluster; the field starts
\* as zeros and the stitching loop begins.
AlignBlocks ==
    /\ et_pc = "extract"
    /\ et_i = Len(samples)
    /\ translations' \in TranslationsOf(Len(samples))
    /\ dvf' = [v \in Voxels(et_args.shape) |-> ZeroField]
    /\ et_i' = 0
    /\ et_pc' = "stitch"
    /\ UNCHANGED <<et_args, search_radius, limit, samples, blocks, windows,
                   notExhaustive>>

\* lines 1318-1322: the translation of one sample is added to the window of
\* radius stride around it.
StitchWindow ==
    /\ et_pc = "stitch"
    /\ et_i < Len(samples)
    /\ LET s == Around(samples[et_i + 1], et_args.stride, et_args.shape)
       IN  /\ windows' = Append(windows, s)
           /\ IF ShapeMismatch(s, et_args.stride)
              THEN /\ et_pc' = "value_error"
                   /\ UNCHANGED dvf
              ELSE /\ et_pc' = "stitch"
                   /\ dvf' = AddWindow(dvf, samples[et_i + 1], translations[et_i + 1],
                                       s, et_args.stride)
    /\ et_i' = et_i + 1
    /\ UNCHANGED <<et_args, search_radius, limit, samples, blocks, translations,
                   notExhaustive>>

\* lines 1324-1331, smooth_sigma = 0: the field is returned as it is.
ExhaustiveReturn ==
    /\ et_pc = "stitch"
    /\ et_i = Len(samples)
    /\ et_pc' = "returned"
    /\ UNCHANGED <<et_args, search_radius, limit, samples, blocks, windows, et_i,
                   translations, dvf, notExhaustive>>

(***************************************************************************)
(* Specifications: one function at a time, the others not called.          *)
(***************************************************************************)
\* The functions the model does not follow in a specification.
OthersIdle == BsplineIdle /\ ExhaustiveIdle

\* distributed_twist_align alone.
InitTwist ==
    TwistInit /\ AffineIdle /\ RandomIdle /\ PiecewiseIdle /\ OthersIdle

SpecTwist == InitTwist /\ [][TwistNext]_vars

\* affine_align alone.
InitAffine ==
    AffineInit /\ TwistIdle /\ RandomIdle /\ PiecewiseIdle /\ OthersIdle

AffineNext == AffineAlignCall

SpecAffine == InitAffine /\ [][AffineNext]_vars

\* random_affine_search alone.
InitRandom ==
    RandomInit /\ TwistIdle /\ AffineIdle /\ PiecewiseIdle /\ OthersIdle

RandomNext ==
    \/ RandomStart
    \/ ScoreCandidate
    \/ RandomReturnBest
    \/ RandomSort
    \/ RefineCandidate
    \/ RandomReturnRefined

SpecRandom == InitRandom /\ [][RandomNext]_vars

\* distributed_piecewise_affine_align alone.
InitPiecewise ==
    PiecewiseInit /\ TwistIdle /\ AffineIdle /\ RandomIdle /\ OthersIdle

PiecewiseNext ==
    \/ PiecewiseStart
    \/ MapOverlap
    \/ BlockTask
    \/ StitchAndReturn

SpecPiecewise == InitPiecewise /\ [][PiecewiseNext]_vars

\* The block geometry of distributed_piecewise_affine_align alone, up to the
\* point where the block tasks exist.
InitGeometry ==
    GeometryInit /\ TwistIdle /\ AffineIdle /\ RandomIdle /\ OthersIdle

GeometryNext ==
    \/ PiecewiseStart
    \/ MapOverlap

SpecGeometry == InitGeometry /\ [][GeometryNext]_vars

\* bspline_deformable_align alone.
InitBspline ==
    /\ BsplineInit
    /\ TwistIdle /\ AffineIdle /\ RandomIdle /\ PiecewiseIdle /\ ExhaustiveIdle

BsplineNext ==
    \/ BsplineSetUp
    \/ BsplineExecute
    \/ BsplineMeasure
    \/ BsplineReturn

SpecBspline == InitBspline /\ [][BsplineNext]_vars

\* distributed_piecewise_exhaustive_translation alone.
InitExhaustive ==
    /\ ExhaustiveInit
    /\ TwistIdle /\ AffineIdle /\ RandomIdle /\ PiecewiseIdle /\ BsplineIdle

ExhaustiveNext ==
    \/ SelectSamples
    \/ ExtractBlock
    \/ AlignBlocks
    \/ StitchWindow
    \/ ExhaustiveReturn

SpecExhaustive == InitExhaustive /\ [][ExhaustiveNext]_vars

(***************************************************************************)
(* Properties of distributed_twist_align.  levels[k] is the state at the   *)
(* end of outer level k-1 (Python counts levels from 0); calls lists the   *)
(* calls of distributed_piecewise_affine_align in the order made.          *)
(***************************************************************************)
LevelCalls(level) == SelectSeq(calls, LAMBDA c : c.outer = level)

RECURSIVE NumeratorSum(_)
NumeratorSum(cs) ==
    IF cs = <<>> THEN 0 ELSE Head(cs).field[2] + NumeratorSum(Tail(cs))

MovingAtStart(level) ==
    IF level = 0 THEN InitialMoving(initial_transform_list)
    ELSE levels[level].moving

MaskAtStart(level) ==
    IF level = 0 THEN InitialMovingMask(initial_transform_list, mov_mask)
    ELSE levels[level].mask

FullChain(k) ==
    (IF initial_transform_list # NoneV THEN Items(initial_transform_list) ELSE <<>>)
        \o <<levels[k].deform>>

\* C1: once the first outer level (outer_level == 0) has finished, the
\* accumulated deform is that level's contribution, the mean of its inner
\* fields.
C1_FirstContributionIsDeform ==
    Len(levels) >= 1 => levels[1].deform = levels[1].contribution

\* C2: for every outer level k > 0 the accumulated deform after level k is
\* compose(deform after level k-1, contribution of level k, fix_spacing), the
\* previous deform being the first argument; and what the function returns is
\* the deform held after the last outer level.
C2_ComposeRecurrenceAndReturn ==
    /\ \A k \in 2..Len(levels) :
          levels[k].deform =
             compose_displacement_vector_fields(
                levels[k - 1].deform, levels[k].contribution, fix_spacing)
    /\ tw_pc = "done" =>
          /\ Len(levels) = Len(block_schedule)
          /\ tw_result = levels[Len(levels)].deform

C2_Witness ==
    /\ tw_pc = "done"
    /\ Len(levels) >= 2
    /\ levels[2].contribution # ZeroField
    /\ levels[1].contribution # levels[2].contribution

\* C3: the contribution of every outer level is the arithmetic mean of the
\* fields of its inner levels: one field per inner block configuration, each
\* counted once, their sum divided by the number of configurations.
C3_ContributionIsMean ==
    \A k \in 1..Len(levels) :
       LET cs == LevelCalls(k - 1)
           n  == Len(block_schedule[k])
           c  == levels[k].contribution
       IN  /\ Len(cs) = n
           /\ \A i \in 1..n : /\ cs[i].inner = i - 1
                               /\ cs[i].nblocks = block_schedule[k][i]
                               /\ cs[i].field[3] = 1
           /\ c[3] > 0
           /\ c[2] * n = NumeratorSum(cs) * c[3]

C3_Witness ==
    /\ Len(levels) >= 2
    /\ Len(block_schedule[2]) >= 2
    /\ levels[1].contribution # ZeroField
    /\ levels[2].contribution[3] = 2

\* C4: at the end of every outer level the working copy of the moving volume
\* (and of the moving mask, when mov_mask is given) is the ORIGINAL mov (and
\* mov_mask) resampled through initial_transform_list followed by the
\* accumulated deform.
C4_RewarpFromOriginal ==
    \A k \in 1..Len(levels) :
       /\ levels[k].moving =
             apply_transform(fix, mov, fix_spacing, mov_spacing, FullChain(k))
       /\ levels[k].mask =
             IF mov_mask # NoneV
             THEN Binarize(apply_transform(fix, mov_mask, fix_spacing,
                                           mov_spacing, FullChain(k)))
             ELSE NoneV

C4_Witness ==
    /\ Len(levels) >= 2
    /\ mov_mask # NoneV
    /\ initial_transform_list # NoneV
    /\ levels[2].moving # levels[1].moving

\* C5: every inner pass of one outer level is handed the same working copies
\* of the moving volume and mask, those made at the end of the previous outer
\* level (the initial ones for the first level); the working copies change
\* only at the end of an outer level, never between two inner passes.
C5_SameMovingWithinLevel ==
    /\ \A i \in 1..Len(calls) :
          /\ calls[i].mov = MovingAtStart(calls[i].outer)
          /\ calls[i].mov_mask = MaskAtStart(calls[i].outer)
    /\ tw_pc \in {"outer", "inner", "compose", "warp", "done"} =>
          /\ current_moving = MovingAtStart(outer_level)
          /\ current_moving_mask = MaskAtStart(outer_level)

C5_Witness ==
    /\ Len(calls) >= 4
    /\ calls[Len(calls)].outer = 1
    /\ calls[Len(calls)].inner = 1
    /\ calls[Len(calls)].mov # calls[1].mov
    /\ mov_mask # NoneV

(***************************************************************************)
(* Properties of affine_align.                                             *)
(***************************************************************************)
AllThreeSupplied(args) ==
    /\ args.jaccard_filter_threshold # NoneV
    /\ args.fix_mask # NoneV
    /\ args.mov_mask # NoneV

\* The Jaccard index of the two masks is below the threshold.
IndexBelowThreshold(args) ==
    100 * Cardinality(args.fix_mask[2] \cap args.mov_mask[2])
       < args.jaccard_filter_threshold[2]
            * Cardinality(args.fix_mask[2] \cup args.mov_mask[2])

\* The transform the caller asked to get back on a fallback: the default it
\* passed, else the initial transform it passed, else the identity.
CallersDefault(args) ==
    IF args.default_passed THEN args.default
    ELSE IF args.initial_transform # NoneV THEN args.initial_transform
    ELSE Eye4

\* C8: called with fix_mask, mov_mask and jaccard_filter_threshold and masks
\* whose Jaccard index is below the threshold, affine_align returns the
\* supplied default unchanged, after no metric evaluation and no optimizer
\* execution.
C8_JaccardGateReturnsSuppliedDefault ==
    ( /\ aa_pc = "returned"
      /\ aa_args.default_passed
      /\ AllThreeSupplied(aa_args)
      /\ IndexBelowThreshold(aa_args) )
    => /\ aa_out.value = aa_args.default
       /\ aa_out.metric_evals = 0
       /\ aa_out.executes = 0

\* C9: on every fallback path (pre-check failed, exception, metric not
\* improved) the matrix returned is the default the caller passed, whenever
\* it passed one; otherwise the initial_transform, when there is one;
\* otherwise the identity.
C9_FallbackIsCallersDefault ==
    (aa_pc = "returned" /\ aa_out.path \in {"jaccard", "exception", "not_improved"})
    => aa_out.value = CallersDefault(aa_args)

\* C10: when nothing raises, the optimized transform is returned exactly when
\* the metric after optimization is strictly less than the metric before it;
\* with an equal or greater final value the default is returned.
C10_StrictImprovementGate ==
    ( /\ aa_pc = "returned"
      /\ ~(AllThreeSupplied(aa_args) /\ IndexBelowThreshold(aa_args))
      /\ aa_itk.raise_at = "none" )
    => IF aa_itk.final_metric < aa_itk.initial_metric
       THEN /\ aa_out.path = "optimized"
            /\ aa_out.value = invert_matrix_axes(aa_itk.optimized)
       ELSE /\ aa_out.path = "not_improved"
            /\ aa_out.value = UpdatedDefault(aa_args.initial_transform,
                                             aa_args.default)

C10_Witness ==
    /\ aa_pc = "returned"
    /\ aa_itk.raise_at = "none"
    /\ aa_itk.final_metric = aa_itk.initial_metric
    /\ aa_out.path = "not_improved"
    /\ aa_out.value # invert_matrix_axes(aa_itk.optimized)
    /\ aa_out.metric_evals = 2

(***************************************************************************)
(* Properties of random_affine_search.                                     *)
(***************************************************************************)
\* How many of the candidates 0..k-1 the evaluator raises for.
RaisesAmong(k) == Cardinality({ i \in 0..k - 1 : Raises(rs_evaluator, i) })

AlwaysRaises ==
    rs_evaluator.first_raise = 0 /\ rs_evaluator.last_raise = rs_args.random_iterations

\* C7: a candidate whose metric evaluation raises gets the worst score and
\* counts as a failure; as soon as the failures reach 10 or the number of
\* candidates the function stops scoring and returns the identity.  With an
\* evaluator that always raises and random_iterations = 20 it returns the
\* identity after at most 10 failed evaluations.
C7_BoundedFailures ==
    ( \/ rs_pc = "scoring"
      \/ rs_pc = "returned" /\ rs_out.path \in {"jaccard", "best", "failed"} ) =>
       /\ Len(scores) = iii
       /\ fail_count = RaisesAmong(iii)
       /\ \A i \in 0..iii - 1 :
             Raises(rs_evaluator, i) => scores[i + 1] = FloatMax
       /\ (rs_pc = "scoring" \/ rs_out.path = "best") =>
             fail_count < 10 /\ fail_count < rs_args.random_iterations + 1
       /\ (rs_pc = "returned" /\ rs_out.path = "failed") =>
             /\ rs_out.value = Eye4
             /\ Raises(rs_evaluator, iii - 1)
             /\ fail_count = 10 \/ fail_count = rs_args.random_iterations + 1
             /\ fail_count <= 10
       /\ (AlwaysRaises /\ rs_args.random_iterations = 20) =>
             /\ iii <= 10
             /\ rs_pc = "returned" => rs_out.value = Eye4
             /\ (rs_pc = "scoring" /\ iii = 10) => FALSE

C7_Witness ==
    /\ rs_pc = "returned"
    /\ rs_args.random_iterations = 20
    /\ AlwaysRaises
    /\ rs_out = [value |-> Eye4, path |-> "failed"]
    /\ iii = 10
    /\ fail_count = 10

\* C19: with affine_align_best = n > 0 the matrix returned is the refined
\* affine, the result of affine_align, whose score after refinement is the
\* lowest of the n.
C19_RefinedBestIsReturned ==
    (rs_pc = "returned" /\ rs_out.path = "refined") =>
        rs_out.value = rs_refined[ArgMin(scores)]

(***************************************************************************)
(* Properties of distributed_piecewise_affine_align.                       *)
(***************************************************************************)
\* A step of a block fell back: the pre-check rejected the block's masks,
\* SimpleITK raised, or the metric did not improve.
StepRaised(answer) == answer.raise_at # "none"

BlockMasksRejected(idx) ==
    /\ pw_args.kwargs.jaccard_filter_threshold # NoneV
    /\ pw_args.fix_mask
    /\ pw_args.mov_mask
    /\ (idx[1] + idx[2] + idx[3]) % 2 = 1

StepFellBack(idx, answer) ==
    \/ BlockMasksRejected(idx)
    \/ StepRaised(answer)
    \/ answer.final_metric >= answer.initial_metric

\* The result of block idx in the block's own frame, from the answers
\* SimpleITK gave in that block alone: each step that falls back returns its
\* default.
ExpectedLocal(idx) ==
    LET d == pw_args.kwargs.default
        rigid == IF StepFellBack(idx, block_log[idx].rigid) THEN d
                 ELSE invert_matrix_axes(block_log[idx].rigid.optimized)
    IN  IF StepFellBack(idx, block_log[idx].affine)
        THEN (IF d = Eye4 THEN rigid ELSE d)
        ELSE invert_matrix_axes(block_log[idx].affine.optimized)

BlockOrigin(idx) ==
    [i \in Axes |->
        (IF idx[i] * blocksize[i] - overlaps[i] > 0
         THEN idx[i] * blocksize[i] - overlaps[i]
         ELSE 0) * pw_args.fix_spacing[i]]

\* C15: the affine returned for block idx is T_o * A * T_o^-1, with A the
\* affine found in the block's own frame and T_o the translation by the
\* block's origin o, no component of which is negative; a local identity
\* stays the identity.
C15_OriginCorrection ==
    pw_pc = "done" =>
        \A idx \in DOMAIN pw_out.affines :
            LET o == BlockOrigin(idx)
                T_o == Translation(o)
                T_o_inverse == Translation([i \in Axes |-> -o[i]])
                A == ExpectedLocal(idx)
            IN  /\ \A i \in Axes : o[i] >= 0
                /\ MatMul(T_o, T_o_inverse) = Eye4
                /\ MatMul(T_o_inverse, T_o) = Eye4
                /\ pw_out.affines[idx] = MatMul(MatMul(T_o, A), T_o_inverse)
                /\ A = Eye4 => pw_out.affines[idx] = Eye4

C15_Witness ==
    /\ pw_pc = "done"
    /\ pw_args.overlap > 0
    /\ \E idx \in DOMAIN affines, other \in DOMAIN affines :
          /\ \E i \in Axes : BlockOrigin(idx)[i] > 0
          /\ ExpectedLocal(idx) # Eye4
          /\ affines[idx] # ExpectedLocal(idx)
          /\ \E i \in Axes : other[i] * blocksize[i] - overlaps[i] < 0
          /\ ExpectedLocal(other) = Eye4
          /\ affines[other] = Eye4

\* C18: with steps = [] no alignment step runs and every returned block
\* affine is the identity.
C18_StepsSelectWhatRuns ==
    (pw_pc = "done" /\ pw_args.steps = <<>>) =>
        \A idx \in DOMAIN pw_out.affines : pw_out.affines[idx] = Eye4

(***************************************************************************)
(* Properties of the block geometry of distributed_piecewise_affine_align. *)
(***************************************************************************)
GeometryComputed == pw_pc \in {"value_error", "scattered", "running"} /\ pads # NoneV

\* C12: after the trailing pads, the extent of every axis is an exact
\* multiple of the blocksize of that axis, and the pad is in 0..blocksize-1.
C12_PaddedExtentIsMultipleOfBlocksize ==
    GeometryComputed =>
        \A i \in Axes :
            /\ \E k \in 0..(pw_args.shape[i] + pads[i]) :
                  k * blocksize[i] = pw_args.shape[i] + pads[i]
            /\ pads[i] >= 0
            /\ pads[i] <= blocksize[i] - 1

\* C13: the blocksize of every axis is ceil(extent / block count).
C13_BlocksizeIsCeiling ==
    (GeometryComputed /\ Len(pw_args.nblocks) = 3) =>
        \A i \in Axes :
            /\ blocksize[i] * pw_args.nblocks[i] >= pw_args.shape[i]
            /\ (blocksize[i] - 1) * pw_args.nblocks[i] < pw_args.shape[i]

\* C14: the grid of blocks dispatched has nblocks[i] blocks along axis i
\* (stated for the arguments whose blocksize is the true ceiling).
C14_GridHasRequestedBlockCounts ==
    ( /\ pw_pc = "running"
      /\ Len(pw_args.nblocks) = 3
      /\ \A i \in Axes : pw_args.shape[i] <= Int16Max ) =>
        \A i \in Axes :
            GridShape(pw_args.shape, blocksize, pads)[i] = pw_args.nblocks[i]

\* C16: a block-count tuple whose length is not the dimensionality of the
\* volume ends the call with an error before any block is dispatched.
C16_BlockCountLengthMismatchIsFatal ==
    Len(pw_args.nblocks) # Len(pw_args.shape) => pw_pc \in {"start", "value_error"}

\* C17: a halo deeper than the block or than the volume on some axis ends
\* the call with an error before any block is dispatched.
C17_OversizedHaloIsRejected ==
    (\E i \in Axes : overlaps # NoneV
                     /\ ( \/ overlaps[i] > blocksize[i]
                          \/ overlaps[i] > pw_args.shape[i] ))
        => pw_pc \in {"value_error", "scattered"}

(***************************************************************************)
(* Properties of bspline_deformable_align.                                 *)
(***************************************************************************)
\* C11: the value the improvement gate uses as the initial metric value is
\* the metric of the transform as it was before irm.Execute changed it.
C11_InitialValueTakenBeforeExecute ==
    bs_pc \in {"measured", "returned"}
        => bs_initial_metric_value = MetricEvaluate(bs_itk, InitialParameters)

(***************************************************************************)
(* Properties of distributed_piecewise_exhaustive_translation.             *)
(***************************************************************************)
Full(voxel, radius) == [i \in Axes |-> (voxel[i] - radius[i])..(voxel[i] + radius[i])]

Inside(slices) ==
    \A i \in Axes : slices[i] \subseteq 0..(et_args.shape[i] - 1)

\* The context radius of axis i: max(search_radius, stride).
ContextRadius(i) ==
    LET r == et_args.query_radius[i] + et_args.num_steps[i] * et_args.step_sizes[i]
    IN  IF r > et_args.stride[i] THEN r ELSE et_args.stride[i]

\* C20: every sample point is at least max(search_radius, stride) voxels
\* from both ends of every axis; its fixed block, its moving block and its
\* stitching window are whole and inside the volume; with a mask, every
\* sample is inside the mask.
C20_SamplesKeepFullContext ==
    /\ et_pc # "value_error"
    /\ \A k \in 1..Len(samples) :
          /\ \A i \in Axes :
                /\ samples[k][i] >= ContextRadius(i)
                /\ (et_args.shape[i] - 1) - samples[k][i] >= ContextRadius(i)
          /\ et_args.mask # NoneV => MaskAt(et_args.mask, samples[k])
    /\ \A k \in 1..Len(blocks) :
          /\ blocks[k].fix = Full(samples[k], search_radius)
          /\ blocks[k].mov = Full(samples[k], et_args.query_radius)
          /\ Inside(blocks[k].fix)
          /\ Inside(blocks[k].mov)
    /\ \A k \in 1..Len(windows) :
          /\ windows[k] = Full(samples[k], et_args.stride)
          /\ Inside(windows[k])

C20_Witness ==
    /\ et_pc = "returned"
    /\ et_args.mask # NoneV
    /\ Len(windows) >= 2
    /\ et_args.stride[1] > search_radius[1]
    /\ \E k \in 1..Len(samples) : samples[k][1] = ContextRadius(1)
    /\ \E k \in 1..Len(samples) :
          (et_args.shape[1] - 1) - samples[k][1] = ContextRadius(1)

\* The weight the stitcher is to give sample k at voxel v: 1 at the sample,
\* falling linearly to 0 at distance stride on each axis, 0 beyond.
RampAt(k, v) ==
    IF \E i \in Axes : Abs(v[i] - samples[k][i]) >= et_args.stride[i]
    THEN 0
    ELSE ( (et_args.stride[1] - Abs(v[1] - samples[k][1]))
         * (et_args.stride[2] - Abs(v[2] - samples[k][2]))
         * (et_args.stride[3] - Abs(v[3] - samples[k][3])) )

RECURSIVE RampSum(_, _)
RampSum(k, v) ==
    IF k = 0 THEN 0 ELSE translations[k] * RampAt(k, v) + RampSum(k - 1, v)

\* C21: without smoothing the field is the plain sum, over the samples, of
\* translation times ramp weight; for a single sample with translation t it
\* is t at the sample and zero at every voxel at distance stride or more on
\* some axis.
C21_AdditiveLinearRamp ==
    et_pc = "returned" =>
        LET D == et_args.stride[1] * et_args.stride[2] * et_args.stride[3]
        IN  /\ \A v \in DOMAIN dvf : dvf[v] = Frac(RampSum(Len(samples), v), D)
            /\ Len(samples) = 1 =>
                  /\ dvf[samples[1]] = Frac(translations[1], 1)
                  /\ \A v \in DOMAIN dvf :
                        (\E i \in Axes :
                            Abs(v[i] - samples[1][i]) >= et_args.stride[i])
                        => dvf[v] = ZeroField

C21_Witness ==
    /\ et_pc = "returned"
    /\ Len(samples) = 1
    /\ translations[1] # 0
    /\ et_args.stride[1] >= 2
    /\ \E v \in DOMAIN dvf :
          /\ Abs(v[1] - samples[1][1]) = 2 * et_args.stride[1]
          /\ dvf[v] = ZeroField
    /\ \E v \in DOMAIN dvf : dvf[v] \notin {ZeroField, Frac(translations[1], 1)}

\* The blocks in which a step ran SimpleITK and SimpleITK raised, so that the
\* step returned its default from the except branch of affine_align.
FailedBlocks ==
    { idx \in DOMAIN block_log :
        /\ ~BlockMasksRejected(idx)
        /\ \/ StepRaised(block_log[idx].rigid)
           \/ StepRaised(block_log[idx].affine) }

\* C22: after a batch in which the alignment of some blocks failed with a
\* runtime error, what the call retains holds a count of the failed blocks,
\* equal to the number of blocks that fell back because of the error.
C22_FailureCountRetained ==
    (pw_pc = "done" /\ FailedBlocks # {}) =>
        /\ "failures" \in DOMAIN pw_out
        /\ pw_out.failures = Cardinality(FailedBlocks)

(***************************************************************************)
(* Properties of the schedule of distributed_twist_align: delays,          *)
(* scatters, block tasks.                                                  *)
(***************************************************************************)
ScatterEvents == { j \in 1..Len(trace) : trace[j].kind = "scatter" }

\* C23: the settling delay comes before every inner pass is dispatched: no
\* pass scatters before its own delay has finished, and between the scatters
\* of two different passes, within an outer level or across outer levels, at
\* least one full delay elapses.
C23_DelayBeforeEveryScatter ==
    \A j \in ScatterEvents :
        /\ \E i \in 1..(j - 1) :
              /\ trace[i].kind = "sleep"
              /\ trace[i].pass = trace[j].pass
        /\ trace[j].at >= trace[j].pass + 1
        /\ \A i \in ScatterEvents :
              (i < j /\ trace[i].pass # trace[j].pass)
              => trace[j].at - trace[i].at >= 1

C23_Witness ==
    /\ tw_pc = "done"
    /\ \E i \in ScatterEvents, j \in ScatterEvents, m \in ScatterEvents :
          /\ trace[j].pass = trace[i].pass + 1
          /\ trace[j].outer = trace[i].outer
          /\ trace[m].pass = trace[j].pass + 1
          /\ trace[m].outer = trace[j].outer + 1

StitchesOf(level, before) ==
    { i \in 1..(before - 1) : trace[i].kind = "stitch" /\ trace[i].outer = level }

\* C24: full-batch barrier: a pass is stitched only when none of its block
\* tasks is outstanding; the mean of an outer level is taken only after every
\* inner pass of the level has been stitched; a pass is dispatched only when
\* no block task of an earlier pass is outstanding, so that the outstanding
\* block tasks always belong to one pass, the current one.
C24_FullBatchBarrier ==
    /\ \A t \in outstanding : t[1] = counter /\ tw_pc = "blocks"
    /\ \A j \in 1..Len(trace) :
          /\ trace[j].kind \in {"stitch", "map_overlap", "mean"}
             => trace[j].pending = {}
          /\ trace[j].kind = "mean"
             => Cardinality(StitchesOf(trace[j].outer, j))
                   = Len(block_schedule[trace[j].outer + 1])
          /\ trace[j].kind = "stitch"
             => /\ j > 1
                /\ trace[j - 1].kind = "map_overlap"
                /\ trace[j - 1].pass = trace[j].pass
          /\ (trace[j].kind = "map_overlap" /\ trace[j].pass > 0)
             => \E i \in 1..(j - 1) :
                   /\ trace[i].kind = "stitch"
                   /\ trace[i].pass = trace[j].pass - 1

C24_Witness ==
    /\ tw_pc = "compose"
    /\ outer_level = 1
    /\ Len(block_schedule[2]) = 2
    /\ Cardinality(StitchesOf(1, Len(trace))) = 2
    /\ \E j \in 1..Len(trace) : trace[j].kind = "mean" /\ trace[j].outer = 0

\* C26: scatter-once: no array is sent to the workers more than once; the
\* fixed volume and its mask, which are the same arrays in every pass, are
\* sent by one pass only.
C26_ScatterOnce ==
    \A i \in ScatterEvents, j \in ScatterEvents :
        trace[i].array = trace[j].array => i = j

\* What the task of block idx returned, from the answers SimpleITK gave in
\* that task.
TaskResult(idx) ==
    single_affine_align(pw_args, blocksize, overlaps, idx,
                        block_log[idx].rigid, block_log[idx].affine).value

\* C25: the order in which the block tasks complete is irrelevant: whatever
\* the order, the affine stored at grid position idx is the result of the
\* task of block idx, and the field is stitched from those.
C25_CompletionOrderIrrelevant ==
    /\ pw_pc = "running" =>
          \A idx \in DOMAIN affines : idx \in DOMAIN block_log
    /\ pw_pc = "done" =>
          /\ \A idx \in Grid(pw_args.shape, blocksize, pads) :
                pw_out.affines[idx] = TaskResult(idx)
          /\ DOMAIN pw_out.affines = Grid(pw_args.shape, blocksize, pads)
          /\ pw_out.field =
                local_affines_to_field(pw_args.shape, pw_args.fix_spacing,
                                       pw_out.affines, blocksize, overlaps)

\* The block at the far end of the grid completed before the block at the
\* origin, and gave another result than the one the block at the origin
\* will give.
C25_Witness ==
    /\ pw_pc = "running"
    /\ Cardinality(Grid(pw_args.shape, blocksize, pads)) = 2
    /\ DOMAIN affines = Grid(pw_args.shape, blocksize, pads) \ {<<0, 0, 0>>}
    /\ \A idx \in DOMAIN affines : affines[idx] # Eye4

\* The outer levels completed so far, numbered from 0.
LevelsDone == 0..(Len(levels) - 1)

\* C27 as stated: with intermediates_path given, every completed outer level
\* i has three checkpoints numbered i: deform, the re-warped moving volume and
\* the re-warped moving mask as they were at the end of level i; with
\* intermediates_path None nothing is written.
C27_ThreeCheckpointsPerLevel ==
    /\ intermediates_path = NoneV => saved = {}
    /\ intermediates_path # NoneV =>
          \A i \in LevelsDone :
              /\ <<"twist_deform", i, levels[i + 1].deform>> \in saved
              /\ <<"twist_image", i, levels[i + 1].moving>> \in saved
              /\ \E entry \in saved : entry[1] = "twist_mask" /\ entry[2] = i
              /\ \A entry \in saved :
                    (entry[1] = "twist_mask" /\ entry[2] = i)
                    => entry[3] = levels[i + 1].mask

\* C27 amended: with intermediates_path given, every completed outer level i
\* has the checkpoints numbered i of deform and of the re-warped moving
\* volume, and of the re-warped moving mask when a moving mask was given and
\* none when it was not, each as at the end of level i, and nothing else is
\* written; with intermediates_path None nothing is written.
C27_CheckpointsPerLevel ==
    /\ intermediates_path = NoneV => saved = {}
    /\ intermediates_path # NoneV =>
          saved =
            UNION { { <<"twist_deform", i, levels[i + 1].deform>>,
                      <<"twist_image", i, levels[i + 1].moving>> } \cup
                    ( IF mov_mask # NoneV
                      THEN { <<"twist_mask", i, levels[i + 1].mask>> }
                      ELSE {} )
                    : i \in LevelsDone }

C27_Witness ==
    /\ tw_pc = "done"
    /\ intermediates_path # NoneV
    /\ mov_mask # NoneV
    /\ Len(levels) = 2
    /\ Cardinality(saved) = 6
    /\ levels[1].contribution # ZeroField
    /\ levels[1].moving # levels[2].moving

\* The tuples of a block schedule in flattened order: outer levels in order,
\* inner levels in order within each.
RECURSIVE Flattened(_)
Flattened(s) == IF s = <<>> THEN <<>> ELSE Head(s) \o Flattened(Tail(s))

\* C28: with a parameter_schedule, pass number k in flattened schedule order
\* (counted from 0) runs the k-th tuple with the entries of
\* parameter_schedule[k], which win over the general kwargs where the keys
\* collide, the other general kwargs being kept; the counter equals the number
\* of passes made and ends at the number of tuples of block_schedule.
C28_KthPassUsesKthEntry ==
    /\ counter = Len(calls)
    /\ counter <= TotalPasses(block_schedule)
    /\ tw_pc = "done" => counter = TotalPasses(block_schedule)
    /\ \A i \in 1..Len(calls) :
          /\ calls[i].number = i - 1
          /\ calls[i].nblocks = Flattened(block_schedule)[i]
          /\ parameter_schedule # NoneV =>
                LET entry == Items(parameter_schedule)[i]
                IN  /\ DOMAIN calls[i].kwargs = DOMAIN kwargs \cup DOMAIN entry
                    /\ \A key \in DOMAIN entry : calls[i].kwargs[key] = entry[key]
                    /\ \A key \in DOMAIN kwargs \ DOMAIN entry :
                          calls[i].kwargs[key] = kwargs[key]

C28_Witness ==
    /\ tw_pc = "done"
    /\ parameter_schedule # NoneV
    /\ Len(block_schedule) = 2
    /\ counter = 4
    /\ calls[3].outer = 1
    /\ calls[3].inner = 0
    /\ calls[3].kwargs.iterations = Items(parameter_schedule)[3].iterations
    /\ calls[3].kwargs.iterations # kwargs.iterations
    /\ calls[3].kwargs.overlap = kwargs.overlap

\* C29: whatever masks are supplied (none, fix_mask only, mov_mask only,
\* both), every block task passes the blocks of the fixed mask to affine_align
\* as fix_mask and those of the moving mask as mov_mask, and None for a mask
\* that was not supplied.
C29_MasksKeepTheirRoles ==
    \A idx \in DOMAIN block_log :
        /\ block_log[idx].fm =
              (IF pw_args.fix_mask THEN <<"array", "fix_mask">> ELSE NoneV)
        /\ block_log[idx].mm =
              (IF pw_args.mov_mask THEN <<"array", "mov_mask">> ELSE NoneV)

\* C30 as stated: in every block the affine step is given the result of the
\* rigid step as initial transform; when the rigid step falls back the affine
\* step starts from the identity; when the affine step falls back the local
\* result is the result of the rigid step; the local result is the identity
\* only when both steps fall back.
C30_TwoStepFallback ==
    \A idx \in DOMAIN block_log :
        LET b == block_log[idx]
            rigid_fell  == StepFellBack(idx, b.rigid)
            affine_fell == StepFellBack(idx, b.affine)
        IN  /\ b.affine_initial = b.rigid_result
            /\ rigid_fell => b.affine_initial = Eye4
            /\ affine_fell => b.local = b.rigid_result
            /\ b.local = Eye4 => (rigid_fell /\ affine_fell)

\* C30 amended: in every block the affine step is given the result of the
\* rigid step as initial transform, and a step that falls back returns the
\* default, which is the identity unless kwargs pass one.  With no default
\* but the identity: when the rigid step falls back the affine step starts
\* from the identity, when the affine step falls back the local result is the
\* result of the rigid step, and the local result is the identity only when
\* both steps fall back.  With another default passed: when the rigid step
\* falls back the affine step starts from that default, and when the affine
\* step falls back the local result is that default.
C30_TwoStepFallbackToDefault ==
    \A idx \in DOMAIN block_log :
        LET b == block_log[idx]
            d == pw_args.kwargs.default
            rigid_fell  == StepFellBack(idx, b.rigid)
            affine_fell == StepFellBack(idx, b.affine)
        IN  /\ b.affine_initial = b.rigid_result
            /\ rigid_fell => b.affine_initial = d
            /\ ~rigid_fell => b.rigid_result = invert_matrix_axes(b.rigid.optimized)
            /\ affine_fell =>
                  b.local = (IF d = Eye4 THEN b.rigid_result ELSE d)
            /\ d = Eye4 => (b.local = Eye4 => (rigid_fell /\ affine_fell))

C30_Witness ==
    /\ pw_pc = "done"
    /\ pw_args.kwargs.default = Eye4
    /\ \E idx \in DOMAIN block_log, other \in DOMAIN block_log :
          /\ ~StepFellBack(idx, block_log[idx].rigid)
          /\ StepFellBack(idx, block_log[idx].affine)
          /\ block_log[idx].local = block_log[idx].rigid_result
          /\ block_log[idx].local # Eye4
          /\ StepFellBack(other, block_log[other].rigid)
          /\ StepFellBack(other, block_log[other].affine)
          /\ block_log[other].local = Eye4

====
